---- MODULE Spec2Model ----
(***************************************************************************)
(* Availability / time-slot subsystem of hcw-home (AvailabilityService).   *)
(*                                                                         *)
(* The store is the two Prisma tables the service uses:                    *)
(*   practitionerAvailability  (variable availabilities)                   *)
(*   timeSlot                  (variable timeSlots)                        *)
(* Every service method is a sequence of awaited database calls; a request *)
(* handler r is at pc[r] between two of them, so the steps of two requests *)
(* interleave at the granularity of one database call.                     *)
(*                                                                         *)
(* Dates are calendar days (day numbers): every caller sends YYYY-MM-DD,   *)
(* which new Date() reads as UTC midnight, and the server runs in UTC (the *)
(* docker-compose deployment sets no TZ), so local and UTC days agree.     *)
(* A time string "HH:MM" is the pair <<HH, MM>>; a string that does not    *)
(* parse is any tuple of another length.                                   *)
(***************************************************************************)
EXTENDS Integers, Sequences, FiniteSets, TLC

VARIABLES
    availabilities,      \* rows of practitionerAvailability
    timeSlots,           \* rows of timeSlot
    nextAvailabilityId,  \* autoincrement of practitionerAvailability.id
    nextSlotId,          \* autoincrement of timeSlot.id
    pc,                  \* pc[r]: the database call request r makes next
    req,                 \* req[r]: arguments and locals of r's call in flight
    ret,                 \* ret[r]: what r's last finished call returned or threw
    observed,            \* the operations whose responses are kept in ret
    consultations        \* rows of consultation

vars == <<availabilities, timeSlots, nextAvailabilityId, nextSlotId, pc, req, ret,
          observed, consultations>>

----------------------------------------------------------------------------
(* Bounds of the model *)

MaxDay == 1                 \* dates are the days 0..MaxDay
MaxSlotId == 2              \* timeSlot ids never exceed this
MaxAvailabilityId == 3      \* practitionerAvailability ids never exceed this
MaxConsultationId == 2      \* consultation ids are 1..MaxConsultationId
MaxSlotsPerDay == 2         \* the while loop of a day pushes at most this many slots

(* Program constants *)
MaxRangeDays == 90          \* generateMyTimeSlots (maxDays)
HorizonDays == 90           \* batchDeactivate: const horizonDays = 90
Today == 0                  \* batchDeactivate: const today = new Date()
MinSlotDuration == 15
MaxSlotDuration == 120

Requests == {"r1", "r2"}
Practitioners == {1, 2}
Dates == 0 .. MaxDay
ConsultationIds == 1 .. MaxConsultationId
NULL == 0                   \* consultationId: null (ids start at 1)
Idle == [op |-> "none"]

----------------------------------------------------------------------------
(* Dates and times *)

\* Date.getDay(): day 0 of the model is a Tuesday (2).
GetDay(date) == (date + 2) % 7

\* 'HH:MM'.split(':').map(Number), then hour * 60 + minute; NaN when the
\* string does not split into two numbers.
IsNaNTime(t) == Len(t) # 2
ToMinutes(t) == t[1] * 60 + t[2]

\* `${hour.toString().padStart(2,'0')}:${minute.toString().padStart(2,'0')}`
FormatTime(minutes) == <<minutes \div 60, minutes % 60>>

\* Order of two 'HH:MM' strings as the database compares them.
TimeLess(a, b) == a[1] < b[1] \/ (a[1] = b[1] /\ a[2] < b[2])

----------------------------------------------------------------------------
(* SlotGenerator: generateSlotsForDay and the day loop of generateTimeSlots *)

\* The loop with a strict test: a slot that ends exactly at the end is dropped.
RECURSIVE SlotLoopStrict(_, _, _, _, _)
SlotLoopStrict(practitionerId, date, currentTime, endTimeMinutes, slotDuration) ==
    IF currentTime + slotDuration < endTimeMinutes
    THEN << [practitionerId |-> practitionerId,
             date           |-> date,
             startTime      |-> FormatTime(currentTime),
             endTime        |-> FormatTime(currentTime + slotDuration),
             status         |-> "AVAILABLE"] >>
         \o SlotLoopStrict(practitionerId, date, currentTime + slotDuration,
                           endTimeMinutes, slotDuration)
    ELSE << >>

\* The while loop of generateSlotsForDay: one slot of slotDuration minutes per
\* turn while currentTime + slotDuration <= endTimeMinutes.
RECURSIVE SlotLoop(_, _, _, _, _)
SlotLoop(practitionerId, date, currentTime, endTimeMinutes, slotDuration) ==
    IF currentTime + slotDuration <= endTimeMinutes
    THEN << [practitionerId |-> practitionerId,
             date           |-> date,
             startTime      |-> FormatTime(currentTime),
             endTime        |-> FormatTime(currentTime + slotDuration),
             status         |-> "AVAILABLE"] >>
         \o SlotLoop(practitionerId, date, currentTime + slotDuration,
                     endTimeMinutes, slotDuration)
    ELSE << >>

\* The slots of a day pushed with status BLOCKED.
generateSlotsForDayBlocked(practitionerId, date, startTime, endTime, slotDuration) ==
    IF IsNaNTime(startTime) \/ IsNaNTime(endTime) THEN << >>
    ELSE IF slotDuration <= 0 THEN << >>
    ELSE LET slots == SlotLoop(practitionerId, date, ToMinutes(startTime),
                               ToMinutes(endTime), slotDuration)
         IN  [i \in 1 .. Len(slots) |-> [slots[i] EXCEPT !.status = "BLOCKED"]]

generateSlotsForDay(practitionerId, date, startTime, endTime, slotDuration) ==
    IF IsNaNTime(startTime) \/ IsNaNTime(endTime) THEN << >>
    ELSE IF slotDuration <= 0 THEN << >>
    ELSE SlotLoop(practitionerId, date, ToMinutes(startTime),
                  ToMinutes(endTime), slotDuration)

\* findAllByPractitioner: the active windows of a practitioner.
findAllByPractitioner(rows, practitionerId) ==
    {a \in rows : a.practitionerId = practitionerId /\ a.isActive}

\* A find that does not compare the weekday: the first active window.
FindForAnyDay(windows, dayOfWeek) ==
    LET m == {a \in windows : a.isActive}
    IN  IF m = {} THEN {} ELSE {CHOOSE a \in m : \A b \in m : a.id <= b.id}

\* availabilities.find(a => a.dayOfWeek === dayOfWeek && a.isActive === true):
\* the first match of the list, which the query orders by dayOfWeek (rows of
\* one day in insertion order).
FindForDay(windows, dayOfWeek) ==
    LET m == {a \in windows : a.dayOfWeek = dayOfWeek /\ a.isActive}
    IN  IF m = {} THEN {} ELSE {CHOOSE a \in m : \A b \in m : a.id <= b.id}

\* A loop that gives up at the first day whose window yields no slot.
RECURSIVE GenerateRangeUntilEmpty(_, _, _, _)
GenerateRangeUntilEmpty(windows, practitionerId, currentDate, endDate) ==
    IF currentDate > endDate THEN << >>
    ELSE LET found == FindForDay(windows, GetDay(currentDate))
             slots == IF found = {} THEN << >>
                      ELSE LET a == CHOOSE x \in found : TRUE
                           IN  generateSlotsForDay(practitionerId, currentDate,
                                   a.startTime, a.endTime, a.slotDuration)
         IN  IF found # {} /\ slots = << >> THEN << >>
             ELSE slots \o GenerateRangeUntilEmpty(windows, practitionerId,
                                                   currentDate + 1, endDate)

\* The for loop of generateTimeSlots over currentDate = startDate .. endDate.
RECURSIVE GenerateRange(_, _, _, _)
GenerateRange(windows, practitionerId, currentDate, endDate) ==
    IF currentDate > endDate THEN << >>
    ELSE LET found == FindForDay(windows, GetDay(currentDate))
             slots == IF found = {} THEN << >>
                      ELSE LET a == CHOOSE x \in found : TRUE
                           IN  generateSlotsForDay(practitionerId, currentDate,
                                   a.startTime, a.endTime, a.slotDuration)
         IN  slots \o GenerateRange(windows, practitionerId, currentDate + 1, endDate)

----------------------------------------------------------------------------
(* SlotReconciler: the existing-key filter of generateTimeSlots *)

\* `${slot.date.toISOString().split('T')[0]}_${slot.startTime}`
SlotKey(slot) == <<slot.date, slot.startTime>>

\* timeSlot.findMany({practitionerId, date: {gte: startDate, lte: endDate}})
SlotsInRange(rows, practitionerId, startDate, endDate) ==
    {s \in rows : s.practitionerId = practitionerId
                  /\ s.date >= startDate /\ s.date <= endDate}

\* The filter left out: every generated slot counts as new.
NewSlotsUnfiltered(generated, existingSlots) == generated

\* timeSlots.filter(slot => !existingSlotKeys.has(key))
NewSlots(generated, existingSlots) ==
    LET existingSlotKeys == {SlotKey(s) : s \in existingSlots}
        Fresh(slot) == SlotKey(slot) \notin existingSlotKeys
    IN  SelectSeq(generated, Fresh)

----------------------------------------------------------------------------
(* The timeSlot table *)

\* The table's uniqueness constraint on (practitionerId, date, startTime):
\* a createMany whose data repeats the triple of a stored row, or of another
\* of its own rows, is rejected whole.
SlotTriple(s) == <<s.practitionerId, s.date, s.startTime>>

\* A table without the constraint: no createMany is rejected.
NoSlotKeyConflict(rows, data) == FALSE

SlotKeyConflict(rows, data) ==
    \/ \E i \in 1 .. Len(data) : \E s \in rows : SlotTriple(s) = SlotTriple(data[i])
    \/ \E i, j \in 1 .. Len(data) : i # j /\ SlotTriple(data[i]) = SlotTriple(data[j])

\* A createMany that first drops the stored rows of the practitioner of data.
TimeSlotRecreateMany(rows, nextId, data) ==
    {s \in rows : \A i \in 1 .. Len(data) : s.practitionerId # data[i].practitionerId}
    \cup { [id             |-> nextId + i - 1,
             practitionerId |-> data[i].practitionerId,
             date           |-> data[i].date,
             startTime      |-> data[i].startTime,
             endTime        |-> data[i].endTime,
             status         |-> data[i].status,
             consultationId |-> NULL] : i \in 1 .. Len(data) }

\* timeSlot.createMany({data}): the rows get the next ids, in order, and the
\* column default consultationId = null.
TimeSlotCreateMany(rows, nextId, data) ==
    rows \cup { [id             |-> nextId + i - 1,
                 practitionerId |-> data[i].practitionerId,
                 date           |-> data[i].date,
                 startTime      |-> data[i].startTime,
                 endTime        |-> data[i].endTime,
                 status         |-> data[i].status,
                 consultationId |-> NULL] : i \in 1 .. Len(data) }

\* timeSlot.findUnique({where: {id}}) as the set of rows found (none or one).
SlotById(rows, id) == {s \in rows : s.id = id}

\* timeSlot.findFirst({where: {id, practitionerId}})
SlotOwned(rows, id, practitionerId) ==
    {s \in rows : s.id = id /\ s.practitionerId = practitionerId}

\* orderBy: [{date: 'asc'}, {startTime: 'asc'}] (rows that tie, by id).
SlotBefore(a, b) ==
    \/ a.date < b.date
    \/ a.date = b.date /\ TimeLess(a.startTime, b.startTime)
    \/ a.date = b.date /\ a.startTime = b.startTime /\ a.id < b.id

RECURSIVE OrderSlots(_)
OrderSlots(rows) ==
    IF rows = {} THEN << >>
    ELSE LET first == CHOOSE a \in rows : \A b \in rows \ {a} : SlotBefore(a, b)
         IN  <<first>> \o OrderSlots(rows \ {first})

\* getPractitionerSlots(practitionerId, startDate, endDate): every slot of the
\* practitioner from startDate 00:00 to endDate 23:59:59.999, ordered.
getPractitionerSlots(rows, practitionerId, startDate, endDate) ==
    OrderSlots(SlotsInRange(rows, practitionerId, startDate, endDate))

\* timeSlot.update({where: {id}, data}): the fields of data replace the row's.
TimeSlotUpdate(rows, id, data) ==
    { IF s.id = id
      THEN [f \in DOMAIN s |-> IF f \in DOMAIN data THEN data[f] ELSE s[f]]
      ELSE s : s \in rows }

\* timeSlot.delete({where: {id}})
TimeSlotDelete(rows, id) == {s \in rows : s.id # id}

\* A deleteMany whose where clause names no status.
DeleteManyAnyStatus(rows, practitionerId, dates) ==
    {s \in rows : s.practitionerId = practitionerId /\ s.date \in dates}

\* The rows timeSlot.deleteMany({practitionerId, date: {in: dates},
\* status: {not: 'BOOKED'}}) removes: one statement, the status is tested on
\* the row as it is when the statement runs.

DeleteManyNotBooked(rows, practitionerId, dates) ==
    {s \in rows : s.practitionerId = practitionerId /\ s.date \in dates
                  /\ s.status # "BOOKED"}

\* A findMany of the booked slots whose where clause names no practitioner.
BookedOnAnyPractitioner(rows, practitionerId, dates) ==
    {s \in rows : s.date \in dates /\ s.status = "BOOKED"}

\* timeSlot.findMany({practitionerId, date: {in: dates}, status: 'BOOKED'})
BookedOn(rows, practitionerId, dates) ==
    {s \in rows : s.practitionerId = practitionerId /\ s.date \in dates
                  /\ s.status = "BOOKED"}

----------------------------------------------------------------------------
(* Control of a request: between two awaited database calls *)

Done(r, result) ==
    /\ pc' = [pc EXCEPT ![r] = "idle"]
    /\ req' = [req EXCEPT ![r] = Idle]
    /\ ret' = [ret EXCEPT ![r] = IF result.op \in observed THEN result ELSE Idle]
    /\ UNCHANGED <<observed, consultations>>

Goto(r, label, locals) ==
    /\ pc' = [pc EXCEPT ![r] = label]
    /\ req' = [req EXCEPT ![r] = locals]
    /\ UNCHANGED <<ret, observed, consultations>>

TheRow(found) == CHOOSE s \in found : TRUE

----------------------------------------------------------------------------
(* SlotBookingManager: bookTimeSlot, releaseTimeSlot, updateSlotStatus,
   deleteTimeSlot *)

\* bookTimeSlot rejecting only a slot that is already BOOKED.
BookFindBookedOnly(r, timeSlotId, consultationId) ==
    /\ pc[r] = "idle"
    /\ LET timeSlot == SlotById(timeSlots, timeSlotId)
           call == [op |-> "bookTimeSlot", timeSlotId |-> timeSlotId,
                    consultationId |-> consultationId]
       IN  IF timeSlot = {}
           THEN Done(r, call @@ [outcome |-> "NotFound"])
           ELSE IF TheRow(timeSlot).status = "BOOKED"
           THEN Done(r, call @@ [outcome |-> "Conflict"])
           ELSE Goto(r, "book_update", call)
    /\ UNCHANGED <<availabilities, timeSlots, nextAvailabilityId, nextSlotId>>

\* bookTimeSlot, up to its update: findUnique, then the two checks.
BookFind(r, timeSlotId, consultationId) ==
    /\ pc[r] = "idle"
    /\ LET timeSlot == SlotById(timeSlots, timeSlotId)
           call == [op |-> "bookTimeSlot", timeSlotId |-> timeSlotId,
                    consultationId |-> consultationId]
       IN  IF timeSlot = {}
           THEN Done(r, call @@ [outcome |-> "NotFound"])
           ELSE IF TheRow(timeSlot).status # "AVAILABLE"
           THEN Done(r, call @@ [outcome |-> "Conflict"])
           ELSE Goto(r, "book_update", call)
    /\ UNCHANGED <<availabilities, timeSlots, nextAvailabilityId, nextSlotId>>

\* bookTimeSlot's update({where: {id}, data: {status: 'BOOKED', consultationId}});
\* Prisma throws P2025 when no row has the id.
BookUpdate(r) ==
    /\ pc[r] = "book_update"
    /\ IF SlotById(timeSlots, req[r].timeSlotId) = {}
       THEN /\ Done(r, req[r] @@ [outcome |-> "P2025"])
            /\ UNCHANGED timeSlots
       ELSE /\ timeSlots' = TimeSlotUpdate(timeSlots, req[r].timeSlotId,
                                [status |-> "BOOKED",
                                 consultationId |-> req[r].consultationId])
            /\ Done(r, req[r] @@ [outcome |-> "ok"])
    /\ UNCHANGED <<availabilities, nextAvailabilityId, nextSlotId>>

\* releaseTimeSlot: one update, no check.
ReleaseTimeSlot(r, timeSlotId) ==
    /\ pc[r] = "idle"
    /\ LET call == [op |-> "releaseTimeSlot", timeSlotId |-> timeSlotId]
       IN  IF SlotById(timeSlots, timeSlotId) = {}
           THEN /\ Done(r, call @@ [outcome |-> "P2025"])
                /\ UNCHANGED timeSlots
           ELSE /\ timeSlots' = TimeSlotUpdate(timeSlots, timeSlotId,
                                    [status |-> "AVAILABLE", consultationId |-> NULL])
                /\ Done(r, call @@ [outcome |-> "ok"])
    /\ UNCHANGED <<availabilities, nextAvailabilityId, nextSlotId>>

\* ConsultationService.createConsultationWithTimeSlot for a patient, up to
\* createConsultation: findUnique of the slot and the two checks.
ConsultFind(r, timeSlotId, patientId) ==
    /\ pc[r] = "idle"
    /\ LET timeSlot == SlotById(timeSlots, timeSlotId)
           call == [op |-> "createConsultationWithTimeSlot",
                    timeSlotId |-> timeSlotId, patientId |-> patientId]
       IN  IF timeSlot = {}
           THEN Done(r, call @@ [outcome |-> "NotFound"])
           ELSE IF TheRow(timeSlot).status # "AVAILABLE"
           THEN Done(r, call @@ [outcome |-> "BadRequest"])
           ELSE Goto(r, "cw_check",
                     call @@ [ownerId |-> TheRow(timeSlot).practitionerId,
                              scheduledDate |-> <<TheRow(timeSlot).date,
                                                  TheRow(timeSlot).startTime>>])
    /\ UNCHANGED <<availabilities, timeSlots, nextAvailabilityId, nextSlotId>>

\* createConsultation's findFirst of a SCHEDULED, WAITING or ACTIVE
\* consultation of the patient (creator, patient and owner are valid users).
ConsultCheck(r) ==
    /\ pc[r] = "cw_check"
    /\ IF \E c \in consultations : c.patientId = req[r].patientId
       THEN Done(r, [op |-> req[r].op, timeSlotId |-> req[r].timeSlotId,
                     patientId |-> req[r].patientId, outcome |-> "Conflict"])
       ELSE Goto(r, "cw_create", req[r])
    /\ UNCHANGED <<availabilities, timeSlots, nextAvailabilityId, nextSlotId>>

\* createConsultation's consultation.create: the row gets the next id and
\* status SCHEDULED (it has an owner).
ConsultCreate(r) ==
    /\ pc[r] = "cw_create"
    /\ Cardinality(consultations) < MaxConsultationId
    /\ LET id == Cardinality(consultations) + 1
       IN  /\ consultations' = consultations \cup
                   {[id |-> id, patientId |-> req[r].patientId,
                     ownerId |-> req[r].ownerId,
                     scheduledDate |-> req[r].scheduledDate,
                     status |-> "SCHEDULED"]}
           /\ pc' = [pc EXCEPT ![r] = "cw_book"]
           /\ req' = [req EXCEPT ![r] = req[r] @@ [consultationId |-> id]]
    /\ UNCHANGED <<availabilities, timeSlots, nextAvailabilityId, nextSlotId,
                   ret, observed>>

\* The response of createConsultationWithTimeSlot once the consultation is
\* created: consultationResult, or what bookTimeSlot threw.
ConsultResponse(q, outcome) ==
    [op |-> q.op, timeSlotId |-> q.timeSlotId, patientId |-> q.patientId,
     consultationId |-> q.consultationId, outcome |-> outcome]

\* await this.availabilityService.bookTimeSlot(timeSlotId, consultation.id),
\* up to its update: findUnique and the two checks, whose exceptions leave
\* createConsultationWithTimeSlot uncaught.
ConsultBookFind(r) ==
    /\ pc[r] = "cw_book"
    /\ LET timeSlot == SlotById(timeSlots, req[r].timeSlotId)
       IN  IF timeSlot = {}
           THEN Done(r, ConsultResponse(req[r], "NotFound"))
           ELSE IF TheRow(timeSlot).status # "AVAILABLE"
           THEN Done(r, ConsultResponse(req[r], "Conflict"))
           ELSE Goto(r, "cw_update", req[r])
    /\ UNCHANGED <<availabilities, timeSlots, nextAvailabilityId, nextSlotId>>

\* bookTimeSlot's update, then return consultationResult.
ConsultBookUpdate(r) ==
    /\ pc[r] = "cw_update"
    /\ IF SlotById(timeSlots, req[r].timeSlotId) = {}
       THEN /\ Done(r, ConsultResponse(req[r], "P2025"))
            /\ UNCHANGED timeSlots
       ELSE /\ timeSlots' = TimeSlotUpdate(timeSlots, req[r].timeSlotId,
                                [status |-> "BOOKED",
                                 consultationId |-> req[r].consultationId])
            /\ Done(r, ConsultResponse(req[r], "ok"))
    /\ UNCHANGED <<availabilities, nextAvailabilityId, nextSlotId>>

\* updateSlotStatus looking the slot up by id alone, whoever owns it.
StatusFindAnyOwner(r, slotId, status, practitionerId) ==
    /\ pc[r] = "idle"
    /\ LET timeSlot == SlotById(timeSlots, slotId)
           call == [op |-> "updateSlotStatus", slotId |-> slotId,
                    status |-> status, practitionerId |-> practitionerId]
       IN  IF timeSlot = {}
           THEN Done(r, call @@ [outcome |-> "NotFound"])
           ELSE IF TheRow(timeSlot).status = "BOOKED"
           THEN Done(r, call @@ [outcome |-> "Conflict"])
           ELSE Goto(r, "status_update", call)
    /\ UNCHANGED <<availabilities, timeSlots, nextAvailabilityId, nextSlotId>>

\* updateSlotStatus, up to its update: findFirst({id, practitionerId}), checks.
StatusFind(r, slotId, status, practitionerId) ==
    /\ pc[r] = "idle"
    /\ LET timeSlot == SlotOwned(timeSlots, slotId, practitionerId)
           call == [op |-> "updateSlotStatus", slotId |-> slotId,
                    status |-> status, practitionerId |-> practitionerId]
       IN  IF timeSlot = {}
           THEN Done(r, call @@ [outcome |-> "NotFound"])
           ELSE IF TheRow(timeSlot).status = "BOOKED"
           THEN Done(r, call @@ [outcome |-> "Conflict"])
           ELSE Goto(r, "status_update", call)
    /\ UNCHANGED <<availabilities, timeSlots, nextAvailabilityId, nextSlotId>>

\* updateSlotStatus's update({where: {id: slotId}, data: {status}})
StatusUpdate(r) ==
    /\ pc[r] = "status_update"
    /\ IF SlotById(timeSlots, req[r].slotId) = {}
       THEN /\ Done(r, req[r] @@ [outcome |-> "P2025"])
            /\ UNCHANGED timeSlots
       ELSE /\ timeSlots' = TimeSlotUpdate(timeSlots, req[r].slotId,
                                [status |-> req[r].status])
            /\ Done(r, req[r] @@ [outcome |-> "ok"])
    /\ UNCHANGED <<availabilities, nextAvailabilityId, nextSlotId>>

\* deleteTimeSlot telling a slot of another practitioner from a missing one.
DeleteFindForbidden(r, slotId, practitionerId) ==
    /\ pc[r] = "idle"
    /\ LET timeSlot == SlotById(timeSlots, slotId)
           call == [op |-> "deleteTimeSlot", slotId |-> slotId,
                    practitionerId |-> practitionerId]
       IN  IF timeSlot = {}
           THEN Done(r, call @@ [outcome |-> "NotFound"])
           ELSE IF TheRow(timeSlot).practitionerId # practitionerId
           THEN Done(r, call @@ [outcome |-> "Forbidden"])
           ELSE IF TheRow(timeSlot).status = "BOOKED"
           THEN Done(r, call @@ [outcome |-> "Conflict"])
           ELSE Goto(r, "delete_delete", call)
    /\ UNCHANGED <<availabilities, timeSlots, nextAvailabilityId, nextSlotId>>

\* deleteTimeSlot, up to its delete: findFirst({id, practitionerId}), checks.
DeleteFind(r, slotId, practitionerId) ==
    /\ pc[r] = "idle"
    /\ LET timeSlot == SlotOwned(timeSlots, slotId, practitionerId)
           call == [op |-> "deleteTimeSlot", slotId |-> slotId,
                    practitionerId |-> practitionerId]
       IN  IF timeSlot = {}
           THEN Done(r, call @@ [outcome |-> "NotFound"])
           ELSE IF TheRow(timeSlot).status = "BOOKED"
           THEN Done(r, call @@ [outcome |-> "Conflict"])
           ELSE Goto(r, "delete_delete", call)
    /\ UNCHANGED <<availabilities, timeSlots, nextAvailabilityId, nextSlotId>>

\* deleteTimeSlot's delete({where: {id: slotId}})
DeleteDelete(r) ==
    /\ pc[r] = "delete_delete"
    /\ IF SlotById(timeSlots, req[r].slotId) = {}
       THEN /\ Done(r, req[r] @@ [outcome |-> "P2025"])
            /\ UNCHANGED timeSlots
       ELSE /\ timeSlots' = TimeSlotDelete(timeSlots, req[r].slotId)
            /\ Done(r, req[r] @@ [outcome |-> "ok"])
    /\ UNCHANGED <<availabilities, nextAvailabilityId, nextSlotId>>

----------------------------------------------------------------------------
(* BatchOperations: batchDeactivate *)

\* A filter that only drops the negative entries.
NormalizeDaysNonNegative(daysOfWeek) == {d \in daysOfWeek : d >= 0}

\* Array.from(new Set(daysOfWeek.map(Number).filter(d => !isNaN(d) && d >= 0 && d <= 6)))
NormalizeDays(daysOfWeek) == {d \in daysOfWeek : d >= 0 /\ d <= 6}

\* Every date from today to today + horizonDays, whatever its weekday.
DatesToDeleteAnyWeekday(validDays) == Today .. Today + HorizonDays

\* The dates from today to today + horizonDays whose weekday is in validDays.
DatesToDelete(validDays) ==
    {d \in Today .. Today + HorizonDays : GetDay(d) \in validDays}

\* practitionerAvailability.updateMany({practitionerId, dayOfWeek: {in: validDays},
\* isActive: true}, {isActive: false})
ActiveOnDays(rows, practitionerId, validDays) ==
    {a \in rows : a.practitionerId = practitionerId /\ a.dayOfWeek \in validDays
                  /\ a.isActive}

DeactivateMany(rows, practitionerId, validDays) ==
    { IF a \in ActiveOnDays(rows, practitionerId, validDays)
      THEN [a EXCEPT !.isActive = FALSE] ELSE a : a \in rows }

ZeroSummary ==
    [deactivatedAvailabilities |-> 0, deletedTimeSlots |-> 0,
     skippedBookedSlots |-> 0, skippedBookedSlotIds |-> {}]

\* batchDeactivate up to and including the updateMany on the windows.
BatchDeactivateStart(r, practitionerId, daysOfWeek) ==
    /\ pc[r] = "idle"
    /\ LET call == [op |-> "batchDeactivate", practitionerId |-> practitionerId,
                    daysOfWeek |-> daysOfWeek]
           validDays == NormalizeDays(daysOfWeek)
       IN  IF practitionerId = 0
           THEN /\ Done(r, call @@ [outcome |-> "BadRequest"])
                /\ UNCHANGED availabilities
           ELSE IF daysOfWeek = {}
           THEN /\ Done(r, call @@ [outcome |-> "ok", validDays |-> {}] @@ ZeroSummary)
                /\ UNCHANGED availabilities
           ELSE IF validDays = {}
           THEN /\ Done(r, call @@ [outcome |-> "BadRequest"])
                /\ UNCHANGED availabilities
           ELSE /\ availabilities' =
                       DeactivateMany(availabilities, practitionerId, validDays)
                /\ Goto(r, "bd_find",
                        [op |-> "batchDeactivate",
                         practitionerId |-> practitionerId,
                         daysOfWeek |-> daysOfWeek,
                         validDays |-> validDays,
                         deactivatedCount |->
                                     Cardinality(ActiveOnDays(availabilities,
                                                     practitionerId, validDays))])
    /\ UNCHANGED <<timeSlots, nextAvailabilityId, nextSlotId>>

\* batchDeactivate's findMany of the booked slots to skip.
BatchDeactivateFind(r) ==
    /\ pc[r] = "bd_find"
    /\ Goto(r, "bd_delete",
            req[r] @@ [skippedBookedSlotIds |->
                {s.id : s \in BookedOn(timeSlots, req[r].practitionerId,
                                       DatesToDelete(req[r].validDays))}])
    /\ UNCHANGED <<availabilities, timeSlots, nextAvailabilityId, nextSlotId>>

\* batchDeactivate's deleteMany and its return value.
BatchDeactivateDelete(r) ==
    /\ pc[r] = "bd_delete"
    /\ LET deleted == DeleteManyNotBooked(timeSlots, req[r].practitionerId,
                                          DatesToDelete(req[r].validDays))
       IN  /\ timeSlots' = timeSlots \ deleted
           /\ Done(r, [op |-> "batchDeactivate",
                       practitionerId |-> req[r].practitionerId,
                       daysOfWeek |-> req[r].daysOfWeek,
                       validDays |-> req[r].validDays,
                       outcome |-> "ok",
                       deactivatedAvailabilities |-> req[r].deactivatedCount,
                       deletedTimeSlots |-> Cardinality(deleted),
                       skippedBookedSlots |-> Cardinality(req[r].skippedBookedSlotIds),
                       skippedBookedSlotIds |-> req[r].skippedBookedSlotIds])
    /\ UNCHANGED <<availabilities, nextAvailabilityId, nextSlotId>>

----------------------------------------------------------------------------
(* AvailabilityManager: generateTimeSlots *)

\* generateTimeSlots up to its day loop: findAllByPractitioner, the early
\* return of [] when there is no active window, and the loop (pure).
GenerateStart(r, practitionerId, startDate, endDate) ==
    /\ pc[r] = "idle"
    /\ LET call == [op |-> "generateTimeSlots", practitionerId |-> practitionerId,
                    startDate |-> startDate, endDate |-> endDate]
           windows == findAllByPractitioner(availabilities, practitionerId)
       IN  IF windows = {}
           THEN Done(r, call @@ [outcome |-> "ok", result |-> << >>])
           ELSE Goto(r, "gen_find",
                     call @@ [generated |-> GenerateRange(windows, practitionerId,
                                                          startDate, endDate)])
    /\ UNCHANGED <<availabilities, timeSlots, nextAvailabilityId, nextSlotId>>

\* generateTimeSlots' findMany of the existing slots and the filter.
GenerateFind(r) ==
    /\ pc[r] = "gen_find"
    /\ LET existingSlots == SlotsInRange(timeSlots, req[r].practitionerId,
                                         req[r].startDate, req[r].endDate)
           newSlots == NewSlots(req[r].generated, existingSlots)
       IN  Goto(r, IF Len(newSlots) > 0 THEN "gen_create" ELSE "gen_return",
                [op |-> "generateTimeSlots",
                 practitionerId |-> req[r].practitionerId,
                 startDate |-> req[r].startDate, endDate |-> req[r].endDate,
                 newSlots |-> newSlots])
    /\ UNCHANGED <<availabilities, timeSlots, nextAvailabilityId, nextSlotId>>

\* generateTimeSlots' createMany({data: newSlots}), without skipDuplicates: the
\* statement fails with P2002 on a uniqueness conflict and inserts nothing.
GenerateCreate(r) ==
    /\ pc[r] = "gen_create"
    /\ IF SlotKeyConflict(timeSlots, req[r].newSlots)
       THEN /\ Done(r, [op |-> "generateTimeSlots",
                        practitionerId |-> req[r].practitionerId,
                        startDate |-> req[r].startDate, endDate |-> req[r].endDate,
                        outcome |-> "P2002"])
            /\ UNCHANGED <<timeSlots, nextSlotId>>
       ELSE /\ nextSlotId + Len(req[r].newSlots) - 1 <= MaxSlotId
            /\ timeSlots' = TimeSlotCreateMany(timeSlots, nextSlotId, req[r].newSlots)
            /\ nextSlotId' = nextSlotId + Len(req[r].newSlots)
            /\ Goto(r, "gen_return", req[r])
    /\ UNCHANGED <<availabilities, nextAvailabilityId>>

\* generateTimeSlots' return this.getPractitionerSlots(...)
GenerateReturn(r) ==
    /\ pc[r] = "gen_return"
    /\ Done(r, [op |-> "generateTimeSlots",
                practitionerId |-> req[r].practitionerId,
                startDate |-> req[r].startDate, endDate |-> req[r].endDate,
                outcome |-> "ok",
                result |-> getPractitionerSlots(timeSlots, req[r].practitionerId,
                                                req[r].startDate, req[r].endDate)])
    /\ UNCHANGED <<availabilities, timeSlots, nextAvailabilityId, nextSlotId>>

\* The loops of generateTimeSlots and generateSlotsForDay, one turn a step.
\* The locals of the call are in req: the windows read at the start,
\* currentDate and the list timeSlots (generated) of the for loop, and in the
\* while loop currentTime, endTimeMinutes, slotDuration and the list slots.

\* generateTimeSlots up to its for loop: findAllByPractitioner, the early
\* return of [], and let currentDate = new Date(startDate).
GenerateLoopStart(r, practitionerId, startDate, endDate) ==
    /\ pc[r] = "idle"
    /\ LET call == [op |-> "generateTimeSlots", practitionerId |-> practitionerId,
                    startDate |-> startDate, endDate |-> endDate]
           windows == findAllByPractitioner(availabilities, practitionerId)
       IN  IF windows = {}
           THEN Done(r, call @@ [outcome |-> "ok", result |-> << >>])
           ELSE Goto(r, "day_loop",
                     call @@ [windows |-> windows, currentDate |-> startDate,
                              generated |-> << >>])
    /\ UNCHANGED <<availabilities, timeSlots, nextAvailabilityId, nextSlotId>>

\* The for loop's locals on entering the turn of the next day.
NextDay(q, slots) ==
    [op |-> q.op, practitionerId |-> q.practitionerId,
     startDate |-> q.startDate, endDate |-> q.endDate, windows |-> q.windows,
     currentDate |-> q.currentDate + 1, generated |-> q.generated \o slots]

\* generateSlotsForDay returning [] before its loop on times that do not parse.
DayYieldsNothingOnNaN(startTime, endTime, slotDuration) ==
    IsNaNTime(startTime) \/ IsNaNTime(endTime)

\* generateSlotsForDay returns [] before its loop: times that do not parse,
\* or slotDuration <= 0.
DayYieldsNothing(startTime, endTime, slotDuration) ==
    IsNaNTime(startTime) \/ IsNaNTime(endTime) \/ slotDuration <= 0

\* One turn of the for loop: the test currentDate <= endDate, the window of
\* the weekday, and generateSlotsForDay up to its while loop.
DayLoopTurn(r) ==
    /\ pc[r] = "day_loop"
    /\ LET q == req[r]
           found == FindForDay(q.windows, GetDay(q.currentDate))
       IN  IF q.currentDate > q.endDate
           THEN Goto(r, "gen_find",
                     [op |-> q.op, practitionerId |-> q.practitionerId,
                      startDate |-> q.startDate, endDate |-> q.endDate,
                      generated |-> q.generated])
           ELSE IF found = {}
           THEN Goto(r, "day_loop", NextDay(q, << >>))
           ELSE LET a == CHOOSE x \in found : TRUE
                IN  IF DayYieldsNothing(a.startTime, a.endTime, a.slotDuration)
                    THEN Goto(r, "day_loop", NextDay(q, << >>))
                    ELSE Goto(r, "slot_loop",
                              q @@ [currentTime |-> ToMinutes(a.startTime),
                                    endTimeMinutes |-> ToMinutes(a.endTime),
                                    slotDuration |-> a.slotDuration,
                                    slots |-> << >>])
    /\ UNCHANGED <<availabilities, timeSlots, nextAvailabilityId, nextSlotId>>

\* One turn of the while loop of generateSlotsForDay: a slot is pushed and
\* currentTime += slotDuration, or the loop ends and the for loop goes on
\* with the slots of the day pushed to its list.
SlotLoopTurn(r) ==
    /\ pc[r] = "slot_loop"
    /\ LET q == req[r]
       IN  IF q.currentTime + q.slotDuration <= q.endTimeMinutes
           THEN /\ Len(q.slots) < MaxSlotsPerDay
                /\ Goto(r, "slot_loop",
                        [q EXCEPT !.slots =
                                      Append(@, [practitionerId |-> q.practitionerId,
                                                 date           |-> q.currentDate,
                                                 startTime      |-> FormatTime(q.currentTime),
                                                 endTime        |-> FormatTime(q.currentTime
                                                                               + q.slotDuration),
                                                 status         |-> "AVAILABLE"]),
                                  !.currentTime = @ + q.slotDuration])
           ELSE Goto(r, "day_loop", NextDay(q, q.slots))
    /\ UNCHANGED <<availabilities, timeSlots, nextAvailabilityId, nextSlotId>>

\* The controller's POST generate-slots (generateMyTimeSlots) for the signed-in
\* practitioner: the checks of the date range, each answered with status 400
\* and a message, then the service call.
GenerateMyTimeSlots(r, practitionerId, startDate, endDate) ==
    LET call == [op |-> "generateMyTimeSlots", practitionerId |-> practitionerId,
                 startDate |-> startDate, endDate |-> endDate]
    IN  IF endDate < startDate
        THEN /\ pc[r] = "idle"
             /\ Done(r, call @@ [outcome |-> "400",
                                 message |-> "End date must be after start date"])
             /\ UNCHANGED <<availabilities, timeSlots, nextAvailabilityId, nextSlotId>>
        ELSE IF endDate - startDate > MaxRangeDays
        THEN /\ pc[r] = "idle"
             /\ Done(r, call @@ [outcome |-> "400",
                                 message |-> "Date range exceeds maximum allowed"])
             /\ UNCHANGED <<availabilities, timeSlots, nextAvailabilityId, nextSlotId>>
        ELSE GenerateStart(r, practitionerId, startDate, endDate)

----------------------------------------------------------------------------
(* The practitionerAvailability table *)

\* A table without the constraint: no pair is ever taken.
NoWindowKeyConflict(rows, id, practitionerId, dayOfWeek) == FALSE

\* The table's uniqueness constraint on (practitionerId, dayOfWeek): some row
\* other than row id holds the pair.
WindowKeyConflict(rows, id, practitionerId, dayOfWeek) ==
    \E a \in rows : a.id # id /\ a.practitionerId = practitionerId
                    /\ a.dayOfWeek = dayOfWeek

\* practitionerAvailability.findFirst({practitionerId, dayOfWeek, isActive: true})
ActiveWindow(rows, practitionerId, dayOfWeek) ==
    LET m == {a \in rows : a.practitionerId = practitionerId
                           /\ a.dayOfWeek = dayOfWeek /\ a.isActive}
    IN  IF m = {} THEN {} ELSE {CHOOSE a \in m : \A b \in m : a.id <= b.id}

\* practitionerAvailability.findUnique({where: {id}})
WindowById(rows, id) == {a \in rows : a.id = id}

\* An update whose where clause is the practitioner of row id, not the id.
WindowUpdateOfPractitioner(rows, id, data) ==
    { IF \E b \in rows : b.id = id /\ b.practitionerId = a.practitionerId
      THEN [f \in DOMAIN a |-> IF f \in DOMAIN data THEN data[f] ELSE a[f]]
      ELSE a : a \in rows }

\* practitionerAvailability.update({where: {id}, data})
WindowUpdate(rows, id, data) ==
    { IF a.id = id
      THEN [f \in DOMAIN a |-> IF f \in DOMAIN data THEN data[f] ELSE a[f]]
      ELSE a : a \in rows }

----------------------------------------------------------------------------
(* AvailabilityManager: createAvailabilityRaw, update, remove,
   batchCreateAvailabilities *)

\* The checks without the one on slotDuration.
RawDataValidAnyDuration(data) ==
    /\ data.practitionerId > 0
    /\ data.dayOfWeek >= 0 /\ data.dayOfWeek <= 6
    /\ data.startTime # << >>
    /\ data.endTime # << >>

\* The checks of createAvailabilityRaw, in order; an empty string is << >>.
RawDataValid(data) ==
    /\ data.practitionerId > 0
    /\ data.dayOfWeek >= 0 /\ data.dayOfWeek <= 6
    /\ data.startTime # << >>
    /\ data.endTime # << >>
    /\ data.slotDuration >= MinSlotDuration /\ data.slotDuration <= MaxSlotDuration

\* createAvailabilityRaw up to its write: the checks and the findFirst of an
\* active window of the day.
CreateFind(r, data) ==
    /\ pc[r] = "idle"
    /\ LET call == [op |-> "createAvailabilityRaw", data |-> data]
           existingAvailability ==
               ActiveWindow(availabilities, data.practitionerId, data.dayOfWeek)
       IN  IF ~RawDataValid(data)
           THEN Done(r, call @@ [outcome |-> "BadRequest"])
           ELSE IF existingAvailability # {}
           THEN Goto(r, "create_update",
                     call @@ [id |-> TheRow(existingAvailability).id])
           ELSE Goto(r, "create_create", call)
    /\ UNCHANGED <<availabilities, timeSlots, nextAvailabilityId, nextSlotId>>

\* createAvailabilityRaw's update of the window it found.
CreateUpdate(r) ==
    /\ pc[r] = "create_update"
    /\ availabilities' = WindowUpdate(availabilities, req[r].id,
                             [startTime    |-> req[r].data.startTime,
                              endTime      |-> req[r].data.endTime,
                              slotDuration |-> req[r].data.slotDuration,
                              isActive     |-> req[r].data.isActive])
    /\ Done(r, [op |-> "createAvailabilityRaw", data |-> req[r].data,
                outcome |-> "ok", id |-> req[r].id])
    /\ UNCHANGED <<timeSlots, nextAvailabilityId, nextSlotId>>

\* createAvailabilityRaw's create; P2002 when the pair is taken.
CreateCreate(r) ==
    /\ pc[r] = "create_create"
    /\ nextAvailabilityId <= MaxAvailabilityId
    /\ IF WindowKeyConflict(availabilities, nextAvailabilityId,
                            req[r].data.practitionerId, req[r].data.dayOfWeek)
       THEN /\ Done(r, req[r] @@ [outcome |-> "P2002"])
            /\ UNCHANGED <<availabilities, nextAvailabilityId>>
       ELSE /\ availabilities' = availabilities \cup
                   {req[r].data @@ [id |-> nextAvailabilityId]}
            /\ nextAvailabilityId' = nextAvailabilityId + 1
            /\ Done(r, req[r] @@ [outcome |-> "ok", id |-> nextAvailabilityId])
    /\ UNCHANGED <<timeSlots, nextSlotId>>

\* update and remove, up to their write: findOne(id).
UpdateFind(r, id, dto) ==
    /\ pc[r] = "idle"
    /\ LET call == [op |-> "update", id |-> id, dto |-> dto]
       IN  IF WindowById(availabilities, id) = {}
           THEN Done(r, call @@ [outcome |-> "NotFound"])
           ELSE Goto(r, "update_update", call)
    /\ UNCHANGED <<availabilities, timeSlots, nextAvailabilityId, nextSlotId>>

\* remove(id) is update(id, {isActive: false}) without a DTO.
RemoveFind(r, id) ==
    /\ pc[r] = "idle"
    /\ LET call == [op |-> "remove", id |-> id, dto |-> [isActive |-> FALSE]]
       IN  IF WindowById(availabilities, id) = {}
           THEN Done(r, call @@ [outcome |-> "NotFound"])
           ELSE Goto(r, "update_update", call)
    /\ UNCHANGED <<availabilities, timeSlots, nextAvailabilityId, nextSlotId>>

\* practitionerAvailability.update({where: {id}, data: dto}) of update and remove.
UpdateUpdate(r) ==
    /\ pc[r] = "update_update"
    /\ LET updated == WindowUpdate(availabilities, req[r].id, req[r].dto)
           row == TheRow(WindowById(updated, req[r].id))
       IN  IF WindowKeyConflict(availabilities, req[r].id,
                                row.practitionerId, row.dayOfWeek)
           THEN /\ Done(r, req[r] @@ [outcome |-> "P2002"])
                /\ UNCHANGED availabilities
           ELSE /\ availabilities' = updated
                /\ Done(r, req[r] @@ [outcome |-> "ok"])
    /\ UNCHANGED <<timeSlots, nextAvailabilityId, nextSlotId>>

\* .filter(a => a.practitionerId && !isNaN(a.dayOfWeek)) of the sanitized items.
Sanitized(items) ==
    LET Kept(a) == a.practitionerId # 0
    IN  SelectSeq(items, Kept)

\* A bulk upsert: a row of data whose pair is taken overwrites the stored row.
RECURSIVE CreateManyUpsert(_, _, _)
CreateManyUpsert(rows, nextId, data) ==
    IF data = << >> THEN [rows |-> rows, nextId |-> nextId]
    ELSE IF WindowKeyConflict(rows, nextId, Head(data).practitionerId,
                              Head(data).dayOfWeek)
         THEN CreateManyUpsert(
                  { IF a.practitionerId = Head(data).practitionerId
                       /\ a.dayOfWeek = Head(data).dayOfWeek
                    THEN Head(data) @@ [id |-> a.id] ELSE a : a \in rows },
                  nextId, Tail(data))
         ELSE CreateManyUpsert(rows \cup {Head(data) @@ [id |-> nextId]},
                               nextId + 1, Tail(data))

\* createMany({data, skipDuplicates: true}): each row in turn is inserted
\* unless the pair is taken, by a stored row or by an earlier row of data.
RECURSIVE CreateManySkip(_, _, _)
CreateManySkip(rows, nextId, data) ==
    IF data = << >> THEN [rows |-> rows, nextId |-> nextId]
    ELSE IF WindowKeyConflict(rows, nextId, Head(data).practitionerId,
                              Head(data).dayOfWeek)
         THEN CreateManySkip(rows, nextId, Tail(data))
         ELSE CreateManySkip(rows \cup {Head(data) @@ [id |-> nextId]},
                             nextId + 1, Tail(data))

\* batchCreateAvailabilities up to and including its createMany.
BatchCreateStart(r, items) ==
    /\ pc[r] = "idle"
    /\ LET call == [op |-> "batchCreateAvailabilities", items |-> items]
           sanitized == Sanitized(items)
           created == CreateManySkip(availabilities, nextAvailabilityId, sanitized)
       IN  IF items = << >> \/ sanitized = << >>
           THEN /\ Done(r, call @@ [outcome |-> "ok", result |-> {}])
                /\ UNCHANGED <<availabilities, nextAvailabilityId>>
           ELSE /\ created.nextId - 1 <= MaxAvailabilityId
                /\ availabilities' = created.rows
                /\ nextAvailabilityId' = created.nextId
                /\ Goto(r, "bc_find",
                        [op |-> "batchCreateAvailabilities", items |-> items,
                         practitionerId |-> sanitized[1].practitionerId,
                         days |-> {sanitized[i].dayOfWeek : i \in 1 .. Len(sanitized)}])
    /\ UNCHANGED <<timeSlots, nextSlotId>>

\* batchCreateAvailabilities' findMany({practitionerId, dayOfWeek: {in: days}})
BatchCreateFind(r) ==
    /\ pc[r] = "bc_find"
    /\ Done(r, [op |-> "batchCreateAvailabilities", items |-> req[r].items,
                outcome |-> "ok",
                result |-> {a \in availabilities :
                               a.practitionerId = req[r].practitionerId
                               /\ a.dayOfWeek \in req[r].days}])
    /\ UNCHANGED <<availabilities, timeSlots, nextAvailabilityId, nextSlotId>>

----------------------------------------------------------------------------
(* Slot queries: getAvailableSlots *)

\* getAvailableSlots(practitionerId, startDate, endDate) at clock time now:
\* the where clause names the practitioner, the range and the OR of a later
\* date and today with a later startTime; it names no status.
AvailableWhere(rows, practitionerId, startDate, endDate, now) ==
    {s \in rows : /\ s.practitionerId = practitionerId
                  /\ s.date >= startDate /\ s.date <= endDate
                  /\ \/ s.date > Today
                     \/ s.date = Today /\ TimeLess(now, s.startTime)}

GetAvailableSlots(r, practitionerId, startDate, endDate, now) ==
    /\ pc[r] = "idle"
    /\ Done(r, [op |-> "getAvailableSlots", practitionerId |-> practitionerId,
                startDate |-> startDate, endDate |-> endDate, now |-> now,
                outcome |-> "ok",
                result |-> OrderSlots(AvailableWhere(timeSlots, practitionerId,
                                                     startDate, endDate, now))])
    /\ UNCHANGED <<availabilities, timeSlots, nextAvailabilityId, nextSlotId>>

\* The where clause of getAvailableSlots on a server in time zone zone. The
\* dates of the slots are instants at UTC midnight; currentDate is the
\* instant of the server's local midnight (setHours(0, 0, 0, 0)). On a UTC
\* server the two coincide for today's slots. East of UTC, local midnight is
\* some hours before UTC midnight of the same calendar day, so every slot of
\* today has date > currentDate and none has date = currentDate.
AvailableWhereZoned(rows, practitionerId, startDate, endDate, now, zone) ==
    {s \in rows : /\ s.practitionerId = practitionerId
                  /\ s.date >= startDate /\ s.date <= endDate
                  /\ IF zone = "UTC"
                     THEN \/ s.date > Today
                          \/ s.date = Today /\ TimeLess(now, s.startTime)
                     ELSE s.date >= Today}

\* getAvailableSlots at local clock time now on a server in time zone zone.
GetAvailableSlotsZoned(r, practitionerId, startDate, endDate, now, zone) ==
    /\ pc[r] = "idle"
    /\ Done(r, [op |-> "getAvailableSlots", practitionerId |-> practitionerId,
                startDate |-> startDate, endDate |-> endDate, now |-> now,
                zone |-> zone, outcome |-> "ok",
                result |-> OrderSlots(AvailableWhereZoned(timeSlots, practitionerId,
                                          startDate, endDate, now, zone))])
    /\ UNCHANGED <<availabilities, timeSlots, nextAvailabilityId, nextSlotId>>

\* getAvailableSlots when its findMany rejects: the call returns the promise of
\* findMany from inside its try block without awaiting it, so the rejection
\* settles the call's own promise and the catch block does not run.
GetAvailableSlotsReadFails(r, practitionerId, startDate, endDate, now) ==
    /\ pc[r] = "idle"
    /\ Done(r, [op |-> "getAvailableSlots", practitionerId |-> practitionerId,
                startDate |-> startDate, endDate |-> endDate, now |-> now,
                readFails |-> TRUE, outcome |-> "PrismaError"])
    /\ UNCHANGED <<availabilities, timeSlots, nextAvailabilityId, nextSlotId>>

\* getPractitionerSlots(practitionerId, startDate, endDate) called on its own.
GetPractitionerSlots(r, practitionerId, startDate, endDate) ==
    /\ pc[r] = "idle"
    /\ Done(r, [op |-> "getPractitionerSlots", practitionerId |-> practitionerId,
                startDate |-> startDate, endDate |-> endDate,
                outcome |-> "ok",
                result |-> getPractitionerSlots(timeSlots, practitionerId,
                                                startDate, endDate)])
    /\ UNCHANGED <<availabilities, timeSlots, nextAvailabilityId, nextSlotId>>

\* getPractitionerSlots when its findMany rejects: the call awaits findMany, so
\* its catch block runs and returns [].
GetPractitionerSlotsReadFails(r, practitionerId, startDate, endDate) ==
    /\ pc[r] = "idle"
    /\ Done(r, [op |-> "getPractitionerSlots", practitionerId |-> practitionerId,
                startDate |-> startDate, endDate |-> endDate,
                readFails |-> TRUE, outcome |-> "ok", result |-> << >>])
    /\ UNCHANGED <<availabilities, timeSlots, nextAvailabilityId, nextSlotId>>

----------------------------------------------------------------------------
(* Inputs *)

SlotIds == 1 .. MaxSlotId
PractitionerInputs == Practitioners \cup {0}
\* The status of an updateSlotStatus call: the values of its declared type,
\* and every value of the column (the request body is not validated).
DeclaredStatusInputs == {"AVAILABLE", "BLOCKED"}
StatusInputs == DeclaredStatusInputs \cup {"BOOKED"}
DayInputs == {{}, {2}, {3}, {2, 3}, {7}, {2, 7}}
NowInputs == {<<8, 0>>, <<9, 15>>}

\* The bodies of createAvailabilityRaw calls: valid ones and ones that fail
\* each check.
RawInputs ==
    [practitionerId : {0, 1}, dayOfWeek : {2, 3, 7}, startTime : {<< >>, <<9, 0>>},
     endTime : {<< >>, <<9, 30>>, <<10, 0>>}, slotDuration : {10, 30},
     isActive : BOOLEAN]

\* The bodies of update calls (UpdateAvailabilityDto: any part of a window).
DtoInputs ==
    {[isActive |-> TRUE], [isActive |-> FALSE], [dayOfWeek |-> 2], [dayOfWeek |-> 3],
     [startTime |-> <<9, 0>>, endTime |-> <<10, 0>>]}

AvailabilityIds == 1 .. MaxAvailabilityId

\* The bodies of batchCreateAvailabilities calls, after the coercions of the
\* sanitizing map.
BatchItems ==
    {[practitionerId |-> p, dayOfWeek |-> d, startTime |-> <<9, 0>>,
      endTime |-> <<9, 30>>, slotDuration |-> 30, isActive |-> TRUE] :
        p \in {0, 1}, d \in {2, 3}}
BatchInputs ==
    {<< >>} \cup {<<a>> : a \in BatchItems} \cup {<<a, b>> : a, b \in BatchItems}

Window(id, practitionerId, dayOfWeek, startTime, endTime, slotDuration, isActive) ==
    [id |-> id, practitionerId |-> practitionerId, dayOfWeek |-> dayOfWeek,
     startTime |-> startTime, endTime |-> endTime, slotDuration |-> slotDuration,
     isActive |-> isActive]

\* Window tables that createAvailabilityRaw calls produce from the empty table.
StoredWindows ==
    { {Window(1, 1, 2, <<9, 0>>, <<10, 0>>, 30, TRUE)},
      {Window(1, 1, 2, <<9, 0>>, <<9, 30>>, 30, TRUE),
       Window(2, 1, 3, <<9, 0>>, <<9, 30>>, 30, TRUE)},
      {Window(1, 1, 2, <<9, 0>>, <<9, 30>>, 30, TRUE),
       Window(2, 2, 2, <<9, 0>>, <<9, 45>>, 45, TRUE)} }

----------------------------------------------------------------------------
(* Spec: the slot operations of concurrent requests *)

Init ==
    /\ availabilities \in StoredWindows
    /\ timeSlots = {}
    /\ nextAvailabilityId = 3
    /\ nextSlotId = 1
    /\ pc = [r \in Requests |-> "idle"]
    /\ req = [r \in Requests |-> Idle]
    /\ ret = [r \in Requests |-> Idle]
    /\ consultations = {}
    /\ observed = {}

\* The calls of a practitioner or administrator session (the controller's
\* slot endpoints), updateSlotStatus with a status among statuses.
ProviderSlotStep(r, statuses) ==
    \/ \E id \in SlotIds, st \in statuses, p \in Practitioners :
           StatusFind(r, id, st, p)
    \/ StatusUpdate(r)
    \/ \E id \in SlotIds, p \in Practitioners : DeleteFind(r, id, p)
    \/ DeleteDelete(r)
    \/ \E p \in PractitionerInputs, days \in DayInputs :
           BatchDeactivateStart(r, p, days)
    \/ BatchDeactivateFind(r)
    \/ BatchDeactivateDelete(r)
    \/ \E p \in Practitioners, s \in Dates, e \in Dates :
           GenerateStart(r, p, s, e)
    \/ GenerateFind(r)
    \/ GenerateCreate(r)
    \/ GenerateReturn(r)

\* The calls of the consultation-booking collaborator (ConsultationService).
BookingStep(r) ==
    \/ \E id \in SlotIds, c \in ConsultationIds : BookFind(r, id, c)
    \/ BookUpdate(r)
    \/ \E id \in SlotIds : ReleaseTimeSlot(r, id)

Next == ProviderSlotStep("r1", DeclaredStatusInputs) \/ BookingStep("r2")

Spec == Init /\ [][Next]_vars


----------------------------------------------------------------------------
(* The store after generateTimeSlots(p, 0, MaxDay) for each practitioner *)

GeneratedAll(windows) ==
    GenerateRange(findAllByPractitioner(windows, 1), 1, 0, MaxDay)
    \o GenerateRange(findAllByPractitioner(windows, 2), 2, 0, MaxDay)

InitGenerated ==
    /\ availabilities \in StoredWindows
    /\ timeSlots = TimeSlotCreateMany({}, 1, GeneratedAll(availabilities))
    /\ nextAvailabilityId = 3
    /\ nextSlotId = Len(GeneratedAll(availabilities)) + 1
    /\ pc = [r \in Requests |-> "idle"]
    /\ req = [r \in Requests |-> Idle]
    /\ ret = [r \in Requests |-> Idle]
    /\ consultations = {}

----------------------------------------------------------------------------
(* SpecBook: concurrent bookTimeSlot calls on generated slots *)

InitBook == InitGenerated /\ observed = {"bookTimeSlot"}

NextBook ==
    \E r \in Requests :
        \/ \E id \in SlotIds, c \in ConsultationIds : BookFind(r, id, c)
        \/ BookUpdate(r)

SpecBook == InitBook /\ [][NextBook]_vars

----------------------------------------------------------------------------
(* SpecBatch: batchDeactivate of one request against the bookings of another *)

InitBatch == InitGenerated /\ observed = {"batchDeactivate"}

NextBatch ==
    \/ \E p \in PractitionerInputs, days \in DayInputs :
           BatchDeactivateStart("r1", p, days)
    \/ BatchDeactivateFind("r1")
    \/ BatchDeactivateDelete("r1")
    \/ BookingStep("r2")

SpecBatch == InitBatch /\ [][NextBatch]_vars

----------------------------------------------------------------------------
(* SpecSeqBatch: batchDeactivate calls of one request between its own
   bookings and status changes, each call finished before the next starts *)

NextSeqBatch ==
    \/ \E p \in PractitionerInputs, days \in DayInputs :
           BatchDeactivateStart("r1", p, days)
    \/ BatchDeactivateFind("r1")
    \/ BatchDeactivateDelete("r1")
    \/ BookingStep("r1")
    \/ \E id \in SlotIds, st \in DeclaredStatusInputs, p \in Practitioners :
           StatusFind("r1", id, st, p)
    \/ StatusUpdate("r1")

SpecSeqBatch == InitBatch /\ [][NextSeqBatch]_vars

----------------------------------------------------------------------------
(* SpecGen: concurrent generateTimeSlots calls, with deletions in between *)

InitGen ==
    /\ availabilities \in StoredWindows
    /\ timeSlots = {}
    /\ nextAvailabilityId = 3
    /\ nextSlotId = 1
    /\ pc = [r \in Requests |-> "idle"]
    /\ req = [r \in Requests |-> Idle]
    /\ ret = [r \in Requests |-> Idle]
    /\ consultations = {}
    /\ observed = {}

NextGen ==
    \E r \in Requests :
        \/ \E p \in Practitioners, s \in Dates, e \in Dates :
               GenerateStart(r, p, s, e)
        \/ GenerateFind(r)
        \/ GenerateCreate(r)
        \/ GenerateReturn(r)
        \/ \E id \in SlotIds, p \in Practitioners : DeleteFind(r, id, p)
        \/ DeleteDelete(r)

SpecGen == InitGen /\ [][NextGen]_vars

----------------------------------------------------------------------------
(* SpecAvail: concurrent calls on the windows, from the empty table *)

InitAvail ==
    /\ availabilities = {}
    /\ timeSlots = {}
    /\ nextAvailabilityId = 1
    /\ nextSlotId = 1
    /\ pc = [r \in Requests |-> "idle"]
    /\ req = [r \in Requests |-> Idle]
    /\ ret = [r \in Requests |-> Idle]
    /\ consultations = {}
    /\ observed = {}

WindowStep(r) ==
    \/ \E data \in RawInputs : CreateFind(r, data)
    \/ CreateUpdate(r)
    \/ CreateCreate(r)
    \/ \E id \in AvailabilityIds, dto \in DtoInputs : UpdateFind(r, id, dto)
    \/ \E id \in AvailabilityIds : RemoveFind(r, id)
    \/ UpdateUpdate(r)
    \/ \E items \in BatchInputs : BatchCreateStart(r, items)
    \/ BatchCreateFind(r)
    \/ \E p \in PractitionerInputs, days \in DayInputs :
           BatchDeactivateStart(r, p, days)
    \/ BatchDeactivateFind(r)
    \/ BatchDeactivateDelete(r)

NextAvail == \E r \in Requests : WindowStep(r)

SpecAvail == InitAvail /\ [][NextAvail]_vars

----------------------------------------------------------------------------
(* SpecSeq: the slot calls of one request, each finished before the next
   starts; ret holds the response of the previous generateTimeSlots call
   while the next call runs *)

InitSeq ==
    /\ availabilities \in StoredWindows
    /\ timeSlots = {}
    /\ nextAvailabilityId = 3
    /\ nextSlotId = 1
    /\ pc = [r \in Requests |-> "idle"]
    /\ req = [r \in Requests |-> Idle]
    /\ ret = [r \in Requests |-> Idle]
    /\ consultations = {}
    /\ observed = {"generateTimeSlots"}

NextSeq ==
    \/ ProviderSlotStep("r1", StatusInputs)
    \/ BookingStep("r1")

SpecSeq == InitSeq /\ [][NextSeq]_vars

----------------------------------------------------------------------------
(* SpecQuery: getAvailableSlots calls of one request on generated slots that
   another request books, releases and blocks *)

InitQuery == InitGenerated /\ observed = {"getAvailableSlots"}

QueryStep(r) ==
    \E p \in Practitioners, s \in Dates, e \in Dates, now \in NowInputs :
        GetAvailableSlots(r, p, s, e, now)

NextQuery ==
    \/ QueryStep("r1")
    \/ BookingStep("r2")
    \/ \E id \in SlotIds, st \in StatusInputs, p \in Practitioners :
           StatusFind("r2", id, st, p)
    \/ StatusUpdate("r2")

SpecQuery == InitQuery /\ [][NextQuery]_vars

----------------------------------------------------------------------------
(* SpecRead: the slot queries of one request, with findMany calls that
   succeed and findMany calls that reject, on slots another request books *)

InitRead == InitGenerated /\ observed = {"getAvailableSlots", "getPractitionerSlots"}

NextRead ==
    \/ QueryStep("r1")
    \/ \E p \in Practitioners, s \in Dates, e \in Dates, now \in NowInputs :
           GetAvailableSlotsReadFails("r1", p, s, e, now)
    \/ \E p \in Practitioners, s \in Dates, e \in Dates :
           \/ GetPractitionerSlots("r1", p, s, e)
           \/ GetPractitionerSlotsReadFails("r1", p, s, e)
    \/ BookingStep("r2")

SpecRead == InitRead /\ [][NextRead]_vars

----------------------------------------------------------------------------
(* SpecZone: getAvailableSlots calls of one request, on a UTC server and on a
   server east of UTC, on slots another request books and releases *)

ZoneInputs == {"UTC", "east"}

InitZone == InitGenerated /\ observed = {"getAvailableSlots"}

NextZone ==
    \/ \E p \in Practitioners, s \in Dates, e \in Dates, now \in NowInputs,
          zone \in ZoneInputs :
           GetAvailableSlotsZoned("r1", p, s, e, now, zone)
    \/ BookingStep("r2")

SpecZone == InitZone /\ [][NextZone]_vars

----------------------------------------------------------------------------
(* SpecSlot, SpecOwner: updateSlotStatus and deleteTimeSlot calls of one
   request against the bookTimeSlot and releaseTimeSlot calls of another, on
   generated slots; ret holds the last response of the booking request
   (SpecSlot) or of the owner's request (SpecOwner) *)

InitSlot == InitGenerated /\ observed = {"bookTimeSlot", "releaseTimeSlot"}

InitOwner == InitGenerated /\ observed = {"updateSlotStatus", "deleteTimeSlot"}

NextSlot ==
    \/ \E id \in SlotIds, st \in StatusInputs, p \in Practitioners :
           StatusFind("r1", id, st, p)
    \/ StatusUpdate("r1")
    \/ \E id \in SlotIds, p \in Practitioners : DeleteFind("r1", id, p)
    \/ DeleteDelete("r1")
    \/ BookingStep("r2")

SpecSlot == InitSlot /\ [][NextSlot]_vars

SpecOwner == InitOwner /\ [][NextSlot]_vars

----------------------------------------------------------------------------
(* SpecConsult: concurrent createConsultationWithTimeSlot calls of two
   requests, for either patient, on generated slots *)

Patients == {3, 4}

InitConsult == InitGenerated /\ observed = {"createConsultationWithTimeSlot"}

NextConsult ==
    \E r \in Requests :
        \/ \E id \in SlotIds, patient \in Patients : ConsultFind(r, id, patient)
        \/ ConsultCheck(r)
        \/ ConsultCreate(r)
        \/ ConsultBookFind(r)
        \/ ConsultBookUpdate(r)

SpecConsult == InitConsult /\ [][NextConsult]_vars

----------------------------------------------------------------------------
(* SpecProbe: updateSlotStatus and deleteTimeSlot calls of two requests, each
   for either practitioner, on generated slots: a slot id one practitioner
   asks about is there under the other practitioner, or has been deleted *)

InitProbe == InitGenerated /\ observed = {"updateSlotStatus", "deleteTimeSlot"}

NextProbe ==
    \E r \in Requests :
        \/ \E id \in SlotIds, st \in DeclaredStatusInputs, p \in Practitioners :
               StatusFind(r, id, st, p)
        \/ StatusUpdate(r)
        \/ \E id \in SlotIds, p \in Practitioners : DeleteFind(r, id, p)
        \/ DeleteDelete(r)

SpecProbe == InitProbe /\ [][NextProbe]_vars

----------------------------------------------------------------------------
(* SpecTile: generateTimeSlots for a practitioner whose one window, on
   Tuesdays, has any of a range of start times, end times and durations *)

TileStarts == {<<9, 0>>, <<9, 10>>, <<16, 30>>}
TileEnds == {<<8, 0>>, <<9, 0>>, <<9, 30>>, <<10, 0>>, <<17, 0>>, <<17, 5>>}
TileDurations == {7, 15, 30, 45, 120}

InitTile ==
    /\ \E st \in TileStarts, en \in TileEnds, d \in TileDurations :
           availabilities = {Window(1, 1, 2, st, en, d, TRUE)}
    /\ timeSlots = {}
    /\ nextAvailabilityId = 2
    /\ nextSlotId = 1
    /\ pc = [r \in Requests |-> "idle"]
    /\ req = [r \in Requests |-> Idle]
    /\ ret = [r \in Requests |-> Idle]
    /\ consultations = {}
    /\ observed = {}

NextTile ==
    \/ \E s \in Dates, e \in Dates : GenerateStart("r1", 1, s, e)
    \/ GenerateFind("r1")
    \/ GenerateCreate("r1")
    \/ GenerateReturn("r1")

SpecTile == InitTile /\ [][NextTile]_vars

----------------------------------------------------------------------------
(* SpecValid: createAvailabilityRaw calls of one request with well-formed and
   malformed data *)

MalformedInputs ==
    [practitionerId : {-1, 0, 1},
     dayOfWeek      : {-1, 2, 6, 7},
     startTime      : {<< >>, <<9, 0>>},
     endTime        : {<< >>, <<10, 0>>},
     slotDuration   : {14, 15, 120, 121},
     isActive       : {TRUE}]

InitValid ==
    /\ availabilities \in StoredWindows
    /\ timeSlots = {}
    /\ nextAvailabilityId = 3
    /\ nextSlotId = 1
    /\ pc = [r \in Requests |-> "idle"]
    /\ req = [r \in Requests |-> Idle]
    /\ ret = [r \in Requests |-> Idle]
    /\ consultations = {}
    /\ observed = {"createAvailabilityRaw"}

NextValid ==
    \/ \E data \in MalformedInputs : CreateFind("r1", data)
    \/ CreateUpdate("r1")
    \/ CreateCreate("r1")

SpecValid == InitValid /\ [][NextValid]_vars

----------------------------------------------------------------------------
(* SpecRange: generation through both endpoints, for date ranges inside and
   outside the 90 days after today, and batchDeactivate, by one request *)

\* <<startDate, endDate>> of a generation request.
RangeInputs ==
    {<<0, 0>>, <<0, 1>>, <<1, 0>>,
     <<Today + HorizonDays + 1, Today + HorizonDays + 1>>,
     <<0, MaxRangeDays + 1>>}

InitRange ==
    /\ availabilities \in StoredWindows
    /\ timeSlots = {}
    /\ nextAvailabilityId = 3
    /\ nextSlotId = 1
    /\ pc = [r \in Requests |-> "idle"]
    /\ req = [r \in Requests |-> Idle]
    /\ ret = [r \in Requests |-> Idle]
    /\ consultations = {}
    /\ observed = {"generateTimeSlots", "generateMyTimeSlots"}

NextRange ==
    \/ \E p \in Practitioners, range \in RangeInputs :
           \/ GenerateStart("r1", p, range[1], range[2])
           \/ GenerateMyTimeSlots("r1", p, range[1], range[2])
    \/ GenerateFind("r1")
    \/ GenerateCreate("r1")
    \/ GenerateReturn("r1")
    \/ \E p \in PractitionerInputs, days \in DayInputs :
           BatchDeactivateStart("r1", p, days)
    \/ BatchDeactivateFind("r1")
    \/ BatchDeactivateDelete("r1")

SpecRange == InitRange /\ [][NextRange]_vars

----------------------------------------------------------------------------
(* SpecActive: generateTimeSlots and batchDeactivate calls of one request,
   each finished before the next starts, so that windows are active in some
   generations and inactive in others *)

InitActive ==
    /\ availabilities \in StoredWindows
    /\ timeSlots = {}
    /\ nextAvailabilityId = 3
    /\ nextSlotId = 1
    /\ pc = [r \in Requests |-> "idle"]
    /\ req = [r \in Requests |-> Idle]
    /\ ret = [r \in Requests |-> Idle]
    /\ consultations = {}
    /\ observed = {}

NextActive ==
    \/ \E p \in Practitioners, s \in Dates, e \in Dates : GenerateStart("r1", p, s, e)
    \/ GenerateFind("r1")
    \/ GenerateCreate("r1")
    \/ GenerateReturn("r1")
    \/ \E p \in Practitioners, days \in DayInputs : BatchDeactivateStart("r1", p, days)
    \/ BatchDeactivateFind("r1")
    \/ BatchDeactivateDelete("r1")

SpecActive == InitActive /\ [][NextActive]_vars

----------------------------------------------------------------------------
(* SpecRegen: generateTimeSlots calls of one request while another request
   books, releases and blocks the slots already stored *)

NextRegen ==
    \/ \E p \in Practitioners, s \in Dates, e \in Dates : GenerateStart("r1", p, s, e)
    \/ GenerateFind("r1")
    \/ GenerateCreate("r1")
    \/ GenerateReturn("r1")
    \/ BookingStep("r2")
    \/ \E id \in SlotIds, st \in DeclaredStatusInputs, p \in Practitioners :
           StatusFind("r2", id, st, p)
    \/ StatusUpdate("r2")

SpecRegen == InitActive /\ [][NextRegen]_vars

----------------------------------------------------------------------------
(* SpecRemove: remove calls of one request on the windows of generated slots,
   while another request updates windows *)

InitRemove == InitGenerated /\ observed = {"remove"}

NextRemove ==
    \/ \E id \in AvailabilityIds : RemoveFind("r1", id)
    \/ UpdateUpdate("r1")
    \/ \E id \in AvailabilityIds, dto \in DtoInputs : UpdateFind("r2", id, dto)
    \/ UpdateUpdate("r2")

SpecRemove == InitRemove /\ [][NextRemove]_vars

----------------------------------------------------------------------------
(* SpecBatchCreate: batchCreateAvailabilities calls of one request whose items
   have practitionerIds and weekdays in and out of range *)

\* Items after the coercions of the sanitizing map; a practitionerId that is
\* not a number has become NaN, which the filter treats as it treats 0.
WideBatchItems ==
    {[practitionerId |-> p, dayOfWeek |-> d, startTime |-> <<9, 0>>,
      endTime |-> <<9, 30>>, slotDuration |-> 30, isActive |-> TRUE] :
        p \in {0, 1}, d \in {-1, 2, 7}}

WideBatchInputs ==
    {<<a>> : a \in WideBatchItems} \cup {<<a, b>> : a, b \in WideBatchItems}

NextBatchCreate ==
    \/ \E items \in WideBatchInputs : BatchCreateStart("r1", items)
    \/ BatchCreateFind("r1")

SpecBatchCreate == InitAvail /\ [][NextBatchCreate]_vars

----------------------------------------------------------------------------
(* SpecTimes: createAvailabilityRaw, update and batchCreateAvailabilities
   calls of one request whose start times are before, at and after their end
   times *)

TimedRawInputs ==
    [practitionerId : {1}, dayOfWeek : {2, 3}, startTime : {<<9, 0>>, <<10, 0>>},
     endTime : {<<9, 0>>, <<9, 30>>}, slotDuration : {30}, isActive : {TRUE}]

TimedDtoInputs ==
    {[startTime |-> <<10, 0>>], [endTime |-> <<9, 0>>],
     [startTime |-> <<9, 0>>, endTime |-> <<10, 0>>]}

TimedBatchInputs == {<<a>> : a \in TimedRawInputs}

NextTimes ==
    \/ \E data \in TimedRawInputs : CreateFind("r1", data)
    \/ CreateUpdate("r1")
    \/ CreateCreate("r1")
    \/ \E id \in AvailabilityIds, dto \in TimedDtoInputs : UpdateFind("r1", id, dto)
    \/ UpdateUpdate("r1")
    \/ \E items \in TimedBatchInputs : BatchCreateStart("r1", items)
    \/ BatchCreateFind("r1")

SpecTimes == InitAvail /\ [][NextTimes]_vars

----------------------------------------------------------------------------
(* SpecBroken: generateTimeSlots for a practitioner whose Tuesday window has
   times that do not parse or a slotDuration that is not positive (update
   stores what it is given), next to a well-formed Wednesday window *)

\* <<startTime, endTime, slotDuration>> of the Tuesday window: '' and '9' do
\* not split into two numbers.
BrokenWindows ==
    {<< << >>, <<9, 30>>, 30>>, << <<9, 0>>, <<9>>, 30>>, << <<9>>, << >>, 30>>,
     << <<9, 0>>, <<9, 30>>, 0>>, << <<9, 0>>, <<9, 30>>, -30>>,
     << <<9, 0>>, <<9, 30>>, 30>>}

InitBroken ==
    /\ \E w \in BrokenWindows :
           availabilities = {Window(1, 1, 2, w[1], w[2], w[3], TRUE),
                             Window(2, 1, 3, <<9, 0>>, <<9, 30>>, 30, TRUE)}
    /\ timeSlots = {}
    /\ nextAvailabilityId = 3
    /\ nextSlotId = 1
    /\ pc = [r \in Requests |-> "idle"]
    /\ req = [r \in Requests |-> Idle]
    /\ ret = [r \in Requests |-> Idle]
    /\ consultations = {}
    /\ observed = {"generateTimeSlots"}

NextBroken ==
    \/ \E s \in Dates, e \in Dates : GenerateStart("r1", 1, s, e)
    \/ GenerateFind("r1")
    \/ GenerateCreate("r1")
    \/ GenerateReturn("r1")

SpecBroken == InitBroken /\ [][NextBroken]_vars

----------------------------------------------------------------------------
(* SpecLoop: generateTimeSlots run one loop turn at a time, for every date
   range including those that end before they start, for a practitioner
   whose Tuesday window is broken, empty, or holds one or two slots. The
   runtime runs a started call on: the loops are synchronous code and each
   awaited database call settles, so every step of a started call is taken
   (weak fairness). *)

LoopWindows ==
    BrokenWindows \cup {<< <<9, 0>>, <<9, 30>>, 15>>, << <<9, 30>>, <<9, 0>>, 30>>}

InitLoop ==
    /\ \E w \in LoopWindows :
           availabilities = {Window(1, 1, 2, w[1], w[2], w[3], TRUE),
                             Window(2, 1, 3, <<9, 0>>, <<9, 0>>, 30, TRUE)}
    /\ timeSlots = {}
    /\ nextAvailabilityId = 3
    /\ nextSlotId = 1
    /\ pc = [r \in Requests |-> "idle"]
    /\ req = [r \in Requests |-> Idle]
    /\ ret = [r \in Requests |-> Idle]
    /\ consultations = {}
    /\ observed = {"generateTimeSlots"}

LoopSteps(r) ==
    \/ DayLoopTurn(r)
    \/ SlotLoopTurn(r)
    \/ GenerateFind(r)
    \/ GenerateCreate(r)
    \/ GenerateReturn(r)

NextLoop ==
    \/ \E s \in Dates, e \in Dates : GenerateLoopStart("r1", 1, s, e)
    \/ LoopSteps("r1")

SpecLoop == InitLoop /\ [][NextLoop]_vars /\ WF_vars(LoopSteps("r1"))

----------------------------------------------------------------------------
(* SpecRetile: createAvailabilityRaw calls that set and change the times and
   the slotDuration of a practitioner's Tuesday window, and generateTimeSlots
   calls, of one request, each finished before the next starts *)

RetileInputs ==
    [practitionerId : {1}, dayOfWeek : {2}, startTime : {<<9, 0>>, <<9, 15>>},
     endTime : {<<9, 30>>, <<9, 45>>}, slotDuration : {15, 30}, isActive : {TRUE}]

NextRetile ==
    \/ \E data \in RetileInputs : CreateFind("r1", data)
    \/ CreateUpdate("r1")
    \/ CreateCreate("r1")
    \/ \E s \in Dates, e \in Dates : GenerateStart("r1", 1, s, e)
    \/ GenerateFind("r1")
    \/ GenerateCreate("r1")
    \/ GenerateReturn("r1")

SpecRetile == InitAvail /\ [][NextRetile]_vars

----------------------------------------------------------------------------
(* SpecSeqAvail: the window calls of one request, each finished before the
   next starts, from the empty table; ret holds the response of the previous
   createAvailabilityRaw call while the next call runs *)

InitSeqAvail ==
    /\ availabilities = {}
    /\ timeSlots = {}
    /\ nextAvailabilityId = 1
    /\ nextSlotId = 1
    /\ pc = [r \in Requests |-> "idle"]
    /\ req = [r \in Requests |-> Idle]
    /\ ret = [r \in Requests |-> Idle]
    /\ consultations = {}
    /\ observed = {"createAvailabilityRaw"}

NextSeqAvail == WindowStep("r1")

SpecSeqAvail == InitSeqAvail /\ [][NextSeqAvail]_vars

----------------------------------------------------------------------------
(* Properties *)

\* A request finishes the write of the call it has in flight.
Finishes(r, labels) == pc[r] \in labels /\ pc'[r] = "idle"

\* Every BOOKED row of the table is still there, unchanged, after the step.
BookedRowsKept == \A s \in timeSlots : s.status = "BOOKED" => s \in timeSlots'

\* C1: of two bookTimeSlot calls on the same AVAILABLE slot with different
\* consultationIds, whatever the order of their steps, exactly one succeeds:
\* the two never both return the booked slot. (Under SpecBook nothing releases
\* a slot, so a second success on a slot is a second winner of the same race.)
C1_ExactlyOneBookingSucceeds ==
    \A r, q \in Requests :
        ( /\ r # q
          /\ ret[r].op = "bookTimeSlot" /\ ret[q].op = "bookTimeSlot"
          /\ ret[r].timeSlotId = ret[q].timeSlotId
          /\ ret[r].consultationId # ret[q].consultationId )
        => ~(ret[r].outcome = "ok" /\ ret[q].outcome = "ok")

C3_BookedSlotProtected ==
    [][ (\E r \in Requests : Finishes(r, {"status_update", "delete_delete"}))
        => BookedRowsKept ]_vars

\* C4: the deleteMany of batchDeactivate, in any interleaving with bookTimeSlot,
\* deletes no slot that is BOOKED when it is applied.
C4_CleanupKeepsBooked ==
    [][ (\E r \in Requests : Finishes(r, {"bd_delete"})) => BookedRowsKept ]_vars

\* C4 witness: batchDeactivate has returned and a slot of its practitioner on
\* one of its target dates is BOOKED without being among the booked slots its
\* findMany saw: the slot was booked between the findMany and the deleteMany.
C4_Witness ==
    /\ ret["r1"].op = "batchDeactivate" /\ ret["r1"].outcome = "ok"
    /\ pc["r1"] = "idle"
    /\ \E s \in timeSlots :
           /\ s.practitionerId = ret["r1"].practitionerId
           /\ s.date \in DatesToDelete(ret["r1"].validDays)
           /\ s.status = "BOOKED"
           /\ s.id \notin ret["r1"].skippedBookedSlotIds

\* C5: the update of bookTimeSlot does not turn into BOOKED a slot that
\* updateSlotStatus has set to BLOCKED since the call's status check, and does
\* not bring back a slot that deleteTimeSlot has removed since.
C5_BookOnlyIfAvailable ==
    [][ \A r \in Requests : Finishes(r, {"book_update"}) =>
            /\ \A s \in timeSlots, t \in timeSlots' :
                   (s.id = req[r].timeSlotId /\ s.status = "BLOCKED" /\ t.id = s.id)
                   => t.status # "BOOKED"
            /\ SlotById(timeSlots, req[r].timeSlotId) = {}
                   => SlotById(timeSlots', req[r].timeSlotId) = {} ]_vars

\* C6: in every reachable state a BOOKED slot has a consultationId and an
\* AVAILABLE or BLOCKED slot has none.
C6_StatusMatchesConsultation ==
    \A s \in timeSlots : (s.status = "BOOKED") <=> (s.consultationId # NULL)

SecondCreate ==
    /\ ret["r1"].op = "createAvailabilityRaw" /\ ret["r1"].outcome = "ok"
    /\ pc["r1"] \in {"create_update", "create_create"}
    /\ req["r1"].data.practitionerId = ret["r1"].data.practitionerId
    /\ req["r1"].data.dayOfWeek = ret["r1"].data.dayOfWeek
    /\ <<req["r1"].data.startTime, req["r1"].data.endTime>>
           # <<ret["r1"].data.startTime, ret["r1"].data.endTime>>

\* C8: when the second of two successive valid createAvailabilityRaw calls for
\* one (practitionerId, dayOfWeek) with different times returns, there is
\* exactly one row for the pair, with the id the first call returned and the
\* startTime, endTime, slotDuration and isActive of the second call.
C8_UpsertByDay ==
    [][ (SecondCreate /\ pc'["r1"] = "idle") =>
            LET data == req["r1"].data
                rows == {a \in availabilities' :
                            /\ a.practitionerId = data.practitionerId
                            /\ a.dayOfWeek = data.dayOfWeek}
            IN  rows = {data @@ [id |-> ret["r1"].id]} ]_vars

\* The previous call of request r1 was a successful generateTimeSlots and the
\* call now in flight is generateTimeSlots with the same arguments.
SameGenerate(call) ==
    /\ ret["r1"].op = "generateTimeSlots" /\ ret["r1"].outcome = "ok"
    /\ call.op = "generateTimeSlots"
    /\ call.practitionerId = ret["r1"].practitionerId
    /\ call.startDate = ret["r1"].startDate
    /\ call.endDate = ret["r1"].endDate

StepOf(r) ==
    \A q \in Requests \ {r} : pc'[q] = pc[q] /\ req'[q] = req[q] /\ ret'[q] = ret[q]

\* Request r, idle, makes a call of operation op that returns or throws
\* without a further database call, and its response is a new one.
Returns(r, op) ==
    /\ StepOf(r) /\ pc[r] = "idle" /\ pc'[r] = "idle"
    /\ ret'[r] # ret[r] /\ ret'[r].op = op

\* Request r, idle, makes a call that goes on to the database call at label.
Proceeds(r, label) == pc[r] = "idle" /\ pc'[r] = label

\* C10: every slot getAvailableSlots returns has status AVAILABLE: a slot that
\* is BOOKED or BLOCKED when the query runs is not in the result.
C10_OnlyAvailableReturned ==
    ret["r1"].op = "getAvailableSlots" =>
        \A i \in 1 .. Len(ret["r1"].result) : ret["r1"].result[i].status = "AVAILABLE"

\* C11: a bookTimeSlot call on an id without a row fails with NotFound, one on
\* a slot whose status is BOOKED or BLOCKED fails with Conflict; a failing
\* call changes no slot, and only a call on an AVAILABLE slot goes on to its
\* update.
C11_BookFailures ==
    [][ \A r \in Requests :
          /\ Returns(r, "bookTimeSlot") =>
                LET found == {s \in timeSlots : s.id = ret'[r].timeSlotId}
                IN  /\ timeSlots' = timeSlots
                    /\ found = {} => ret'[r].outcome = "NotFound"
                    /\ \A s \in found :
                           /\ s.status \in {"BOOKED", "BLOCKED"}
                           /\ ret'[r].outcome = "Conflict"
          /\ Proceeds(r, "book_update") =>
                \E s \in timeSlots :
                    s.id = req'[r].timeSlotId /\ s.status = "AVAILABLE" ]_vars

\* C11 witness: a second bookTimeSlot on a booked slot has failed with
\* Conflict and the slot still carries the consultationId of the first.
C11_Witness ==
    \E r \in Requests, s \in timeSlots :
        /\ ret[r].op = "bookTimeSlot" /\ ret[r].outcome = "Conflict"
        /\ s.id = ret[r].timeSlotId /\ s.status = "BOOKED"
        /\ s.consultationId # NULL /\ s.consultationId # ret[r].consultationId

\* The lookup of updateSlotStatus or deleteTimeSlot by request r, made with
\* the arguments of call, fails as it must: NotFound when no row has the id or
\* the row is another practitioner's, Conflict when the row is BOOKED, and
\* the tables are as before.
OwnerCallFails(r, call) ==
    LET found == {s \in timeSlots : s.id = call.slotId}
    IN  /\ timeSlots' = timeSlots /\ availabilities' = availabilities
        /\ (found = {} \/ \E s \in found : s.practitionerId # call.practitionerId)
               => call.outcome = "NotFound"
        /\ (\E s \in found : s.practitionerId = call.practitionerId)
               => /\ call.outcome = "Conflict"
                  /\ \A s \in found : s.status = "BOOKED"

\* The lookup found a slot of the requester that is not BOOKED.
OwnerCallPasses(call) ==
    \E s \in timeSlots : /\ s.id = call.slotId
                          /\ s.practitionerId = call.practitionerId
                          /\ s.status # "BOOKED"

\* C12: updateSlotStatus and deleteTimeSlot fail with NotFound on an id without
\* a row or with a row of another practitioner, and with Conflict on a BOOKED
\* slot; a failing call leaves the store unchanged, and only a call on a
\* slot of the requester that is not BOOKED goes on to its write.
C12_OwnerFailures ==
    [][ \A r \in Requests :
          /\ Returns(r, "updateSlotStatus") => OwnerCallFails(r, ret'[r])
          /\ Returns(r, "deleteTimeSlot") => OwnerCallFails(r, ret'[r])
          /\ Proceeds(r, "status_update") => OwnerCallPasses(req'[r])
          /\ Proceeds(r, "delete_delete") => OwnerCallPasses(req'[r]) ]_vars

\* C12 witness: a call on a slot of another practitioner has failed with
\* NotFound, and the slot is stored.
C12_Witness ==
    \E r \in Requests, s \in timeSlots :
        /\ ret[r].op \in {"updateSlotStatus", "deleteTimeSlot"}
        /\ ret[r].outcome = "NotFound"
        /\ s.id = ret[r].slotId /\ s.practitionerId # ret[r].practitionerId

\* C13: no updateSlotStatus call, whatever its status argument, leaves BOOKED
\* a slot that was not BOOKED before the call's write.
C13_StatusNeverBooks ==
    [][ \A r \in Requests : Finishes(r, {"status_update"}) =>
            \A s \in timeSlots, t \in timeSlots' :
                (t.id = s.id /\ s.status # "BOOKED") => t.status # "BOOKED" ]_vars

\* C14: releaseTimeSlot on a BOOKED slot yields status AVAILABLE with a null
\* consultationId, and on a BLOCKED slot leaves the status BLOCKED.
C14_ReleaseOnlyFromBooked ==
    [][ \A r \in Requests : Returns(r, "releaseTimeSlot") =>
            \A s \in timeSlots, t \in timeSlots' :
                (s.id = ret'[r].timeSlotId /\ t.id = s.id) =>
                    /\ s.status = "BOOKED" =>
                           (t.status = "AVAILABLE" /\ t.consultationId = NULL)
                    /\ s.status = "BLOCKED" => t.status = "BLOCKED" ]_vars

\* Minutes since midnight of an 'HH:MM' string with HH and MM in range.
MinuteOfDay(t) ==
    IF Len(t) = 2 /\ t[1] \in 0 .. 23 /\ t[2] \in 0 .. 59 THEN t[1] * 60 + t[2] ELSE -1

\* The list of slots tiles the window from minute s to minute e in steps of d:
\* floor((e - s) / d) slots when e > s, none otherwise, the k-th from
\* s + (k-1)*d to s + k*d, none ending after e.
Tiles(slots, s, e, d) ==
    LET n == IF e > s THEN (e - s) \div d ELSE 0
    IN  /\ Len(slots) = n
        /\ \A k \in 1 .. n :
               /\ MinuteOfDay(slots[k].startTime) = s + (k - 1) * d
               /\ MinuteOfDay(slots[k].endTime) = s + k * d
               /\ MinuteOfDay(slots[k].endTime) <= e

\* C15: for a window from minute s to minute e with slotDuration d > 0, the
\* slots generated for a day of the window are exactly floor((e - s) / d)
\* contiguous slots of d minutes starting at s (none when e <= s), and a
\* remainder shorter than d gives no slot.
C15_SlotsTileWindow ==
    \A r \in Requests : pc[r] = "gen_find" =>
        \A w \in availabilities :
            LET ofDay == SelectSeq(req[r].generated, LAMBDA slot : slot.date = 0)
            IN  IF req[r].startDate <= 0 /\ 0 <= req[r].endDate
                THEN Tiles(ofDay, MinuteOfDay(w.startTime), MinuteOfDay(w.endTime),
                           w.slotDuration)
                ELSE req[r].generated = << >>

\* C15 witness: the window 09:00-17:05 with slotDuration 30 has given 16 slots,
\* the last one ending at 17:00.
C15_Witness ==
    \E w \in availabilities :
        /\ w.startTime = <<9, 0>> /\ w.endTime = <<17, 5>> /\ w.slotDuration = 30
        /\ pc["r1"] = "gen_find"
        /\ Len(req["r1"].generated) = 16
        /\ req["r1"].generated[16].endTime = <<17, 0>>

\* The slots of practitioner p on the dates of the horizon whose weekday is
\* one of days.
OnHorizon(rows, p, days) ==
    {t \in rows : /\ t.practitionerId = p
                  /\ t.date \in Today .. Today + HorizonDays
                  /\ GetDay(t.date) \in days}

\* C16: a batchDeactivate call that runs alone reports the number of windows
\* of the practitioner that were active on the valid days, the number of
\* non-BOOKED slots on the horizon dates of those weekdays (which it deletes),
\* and the number and the ids of the BOOKED slots there, which it keeps.
C16_BatchCounts ==
    [][ \A r \in Requests :
          /\ Proceeds(r, "bd_find") =>
                req'[r].deactivatedCount =
                    Cardinality({a \in availabilities :
                                    /\ a.practitionerId = req'[r].practitionerId
                                    /\ a.dayOfWeek \in req'[r].daysOfWeek \cap (0 .. 6)
                                    /\ a.isActive})
          /\ Finishes(r, {"bd_delete"}) =>
                LET target == OnHorizon(timeSlots, req[r].practitionerId,
                                        req[r].daysOfWeek \cap (0 .. 6))
                    booked == {t \in target : t.status = "BOOKED"}
                IN  /\ ret'[r].outcome = "ok"
                    /\ ret'[r].deactivatedAvailabilities = req[r].deactivatedCount
                    /\ ret'[r].deletedTimeSlots = Cardinality(target \ booked)
                    /\ ret'[r].skippedBookedSlots = Cardinality(booked)
                    /\ ret'[r].skippedBookedSlotIds = {t.id : t \in booked}
                    /\ timeSlots' = timeSlots \ (target \ booked) ]_vars

\* C16 witness: a call has deactivated a window, deleted a slot and skipped a
\* BOOKED slot, which is still stored.
C16_Witness ==
    /\ pc["r1"] = "idle"
    /\ ret["r1"].op = "batchDeactivate" /\ ret["r1"].outcome = "ok"
    /\ ret["r1"].deactivatedAvailabilities = 1
    /\ ret["r1"].deletedTimeSlots = 1
    /\ ret["r1"].skippedBookedSlots = 1
    /\ \E t \in timeSlots : t.status = "BOOKED" /\ ret["r1"].skippedBookedSlotIds = {t.id}

\* C17: a generateTimeSlots call that returns normally returns every stored
\* slot of the practitioner in the range, also when the practitioner has no
\* active window and slots of earlier generations are stored.
C17_ReturnsAllPersisted ==
    [][ \A r \in Requests :
          ( /\ ret'[r] # ret[r]
            /\ ret'[r].op = "generateTimeSlots"
            /\ ret'[r].outcome = "ok" )
          => {ret'[r].result[i] : i \in DOMAIN ret'[r].result}
               = {t \in timeSlots' : /\ t.practitionerId = ret'[r].practitionerId
                                     /\ t.date >= ret'[r].startDate
                                     /\ t.date <= ret'[r].endDate} ]_vars

\* The data a createAvailabilityRaw call must reject.
Malformed(data) ==
    \/ data.practitionerId <= 0
    \/ data.dayOfWeek \notin 0 .. 6
    \/ data.startTime = << >>
    \/ data.endTime = << >>
    \/ data.slotDuration \notin 15 .. 120

C19_ReadFailureGivesEmpty ==
    \A r \in Requests :
        ( /\ ret[r].op \in {"getAvailableSlots", "getPractitionerSlots"}
          /\ "readFails" \in DOMAIN ret[r] )
        => ret[r].outcome = "ok" /\ ret[r].result = << >>

\* The entries of a daysOfWeek list that are integers from 0 to 6.
ValidEntries(daysOfWeek) == daysOfWeek \cap (0 .. 6)

\* A batchDeactivate call of request r that goes on to its database calls
\* has a valid entry, deactivates the active windows of the practitioner on
\* the valid entries and no other, and ends by deleting the non-BOOKED slots
\* of the practitioner on the horizon dates of the valid entries and no other.
ActsOnValidEntries(r) ==
    /\ Proceeds(r, "bd_find") =>
          LET v == ValidEntries(req'[r].daysOfWeek)
          IN  /\ v # {}
              /\ timeSlots' = timeSlots
              /\ availabilities' =
                    { IF a.practitionerId = req'[r].practitionerId /\ a.dayOfWeek \in v
                      THEN [a EXCEPT !.isActive = FALSE] ELSE a : a \in availabilities }
    /\ Finishes(r, {"bd_delete"}) =>
          LET target == OnHorizon(timeSlots, req[r].practitionerId,
                                  ValidEntries(req[r].daysOfWeek))
          IN  /\ availabilities' = availabilities
              /\ timeSlots' = {t \in timeSlots : t \notin target \/ t.status = "BOOKED"}

\* A batchDeactivate call of request r with a practitioner id returns at once.
ReturnsAtOnce(r) == Returns(r, "batchDeactivate") /\ ret'[r].practitionerId # 0

\* The response of request r is the summary with all counts zero.
ZeroCounts(r) ==
    /\ ret'[r].outcome = "ok"
    /\ ret'[r].deactivatedAvailabilities = 0 /\ ret'[r].deletedTimeSlots = 0
    /\ ret'[r].skippedBookedSlots = 0 /\ ret'[r].skippedBookedSlotIds = {}

C21_CleanupCoversGeneration ==
    [][ \A r \in Requests :
          Finishes(r, {"bd_delete"}) =>
              \A t \in timeSlots' :
                  ( /\ t.practitionerId = req[r].practitionerId
                    /\ GetDay(t.date) \in req[r].daysOfWeek )
                  => t.status = "BOOKED" ]_vars

\* The range of a generation request is in order and at most 90 days long.
RangeAllowed(call) ==
    call.endDate >= call.startDate /\ call.endDate - call.startDate <= 90

\* C22: a generation request whose end date is before its start date or whose
\* range is longer than 90 days, through either endpoint, is answered with an
\* error and a message and goes on to no database call of the generation.
C22_BadRangeRejected ==
    [][ \A r \in Requests :
          /\ Proceeds(r, "gen_find") => RangeAllowed(req'[r])
          /\ ( /\ pc[r] = "idle" /\ pc'[r] = "idle" /\ ret'[r] # ret[r]
               /\ ret'[r].op \in {"generateTimeSlots", "generateMyTimeSlots"}
               /\ ~RangeAllowed(ret'[r]) )
             => ret'[r].outcome = "400" /\ "message" \in DOMAIN ret'[r] ]_vars

\* C23: when a batchDeactivate call completes, its practitioner has no active
\* window on a valid weekday of its days, no window row has gone, and every
\* BOOKED slot of the practitioner on the horizon dates of those weekdays is
\* listed in the skippedBookedSlotIds it returns.
C23_DeactivateOutcome ==
    [][ \A r \in Requests :
          Finishes(r, {"bd_delete"}) =>
              LET p == req[r].practitionerId
                  v == ValidEntries(req[r].daysOfWeek)
              IN  /\ \A a \in availabilities' :
                         a.practitionerId = p /\ a.dayOfWeek \in v => ~a.isActive
                  /\ {a.id : a \in availabilities'} = {a.id : a \in availabilities}
                  /\ \A t \in OnHorizon(timeSlots', p, v) :
                         t.status = "BOOKED" => t.id \in ret'[r].skippedBookedSlotIds ]_vars

\* The minutes at which the tiles of window a start.
TileStartsOf(a) ==
    LET s == MinuteOfDay(a.startTime)
        e == MinuteOfDay(a.endTime)
        n == IF e > s THEN (e - s) \div a.slotDuration ELSE 0
    IN  {s + k * a.slotDuration : k \in 0 .. n - 1}

\* The active windows of practitioner p for the weekday of date d.
ActiveFor(p, d) ==
    {a \in availabilities : a.practitionerId = p /\ a.isActive /\ a.dayOfWeek = GetDay(d)}

GenerateStep(r) ==
    \/ Proceeds(r, "gen_find")
    \/ pc[r] \in {"gen_find", "gen_create", "gen_return"} /\ pc'[r] # pc[r]

\* C25: every row a generateTimeSlots call inserts has status AVAILABLE and a
\* null consultationId when it is inserted.
C25_InsertedAvailable ==
    [][ \A r \in Requests :
          GenerateStep(r) =>
              \A t \in timeSlots' \ timeSlots :
                  t.status = "AVAILABLE" /\ t.consultationId = NULL ]_vars

\* C25 witness: a generateTimeSlots call has just inserted its new slots, and
\* another slot of the store is BOOKED.
C25_Witness ==
    /\ pc["r1"] = "gen_return" /\ "newSlots" \in DOMAIN req["r1"]
    /\ Len(req["r1"].newSlots) > 0
    /\ \A i \in 1 .. Len(req["r1"].newSlots) :
           \E t \in timeSlots : SlotTriple(t) = SlotTriple(req["r1"].newSlots[i])
    /\ \E t \in timeSlots : t.status = "BOOKED"

\* C26: no step of a generateTimeSlots call deletes a stored slot or changes
\* one: every row stored before the step is stored, with the same status,
\* consultationId, startTime and endTime, after it.
C26_GenerateKeepsStoredSlots ==
    [][ \A r \in Requests : GenerateStep(r) => timeSlots \subseteq timeSlots' ]_vars

\* C26 witness: a generateTimeSlots call has inserted a slot into a range of
\* its practitioner that holds a BOOKED and a BLOCKED slot.
C26_Witness ==
    /\ pc["r1"] = "gen_return" /\ "newSlots" \in DOMAIN req["r1"]
    /\ Len(req["r1"].newSlots) > 0
    /\ \E t \in timeSlots : SlotTriple(t) = SlotTriple(req["r1"].newSlots[1])
    /\ \E t \in SlotsInRange(timeSlots, req["r1"].practitionerId,
                               req["r1"].startDate, req["r1"].endDate) :
           t.status \in {"BOOKED", "BLOCKED"}

\* C27: a remove(id) call on an id without a row fails with NotFound and
\* changes nothing; a call on a stored window goes on to one write, which
\* sets isActive = false on that row, keeps the row and every other window,
\* and leaves the slots as they are.
C27_RemoveOnlyDeactivates ==
    [][ \A r \in Requests :
          /\ Returns(r, "remove") =>
                /\ ret'[r].outcome = "NotFound"
                /\ \A a \in availabilities : a.id # ret'[r].id
                /\ availabilities' = availabilities /\ timeSlots' = timeSlots
          /\ Proceeds(r, "update_update") /\ req'[r].op = "remove" =>
                /\ \E a \in availabilities : a.id = req'[r].id
                /\ availabilities' = availabilities /\ timeSlots' = timeSlots
          /\ Finishes(r, {"update_update"}) /\ req[r].op = "remove" =>
                /\ ret'[r].outcome = "ok"
                /\ timeSlots' = timeSlots
                /\ availabilities' =
                      { IF a.id = req[r].id THEN [a EXCEPT !.isActive = FALSE] ELSE a :
                            a \in availabilities } ]_vars

\* C27 witness: remove(1) has returned; window 1 is stored and inactive, a
\* second window is active and the slots generated from window 1 are stored.
C27_Witness ==
    /\ pc["r1"] = "idle"
    /\ ret["r1"].op = "remove" /\ ret["r1"].outcome = "ok" /\ ret["r1"].id = 1
    /\ \E a \in availabilities :
           /\ a.id = 1 /\ ~a.isActive
           /\ \E t \in timeSlots :
                  t.practitionerId = a.practitionerId /\ GetDay(t.date) = a.dayOfWeek
    /\ \E a \in availabilities : a.id = 2 /\ a.isActive

\* The (practitionerId, dayOfWeek) pair of a window or of a batch item.
PairOf(a) == <<a.practitionerId, a.dayOfWeek>>

\* C28: the createMany of batchCreateAvailabilities keeps every stored window
\* as it is (id, times, slotDuration, isActive) and inserts no row for a pair
\* that a stored window holds, nor two rows for one pair.
C28_InsertIfAbsent ==
    [][ \A r \in Requests :
          Proceeds(r, "bc_find") =>
              /\ availabilities \subseteq availabilities'
              /\ \A n \in availabilities' \ availabilities :
                     /\ \A a \in availabilities : PairOf(a) # PairOf(n)
                     /\ \A m \in availabilities' \ availabilities :
                            PairOf(m) = PairOf(n) => m = n ]_vars

\* C28 witness: a batchCreateAvailabilities call has run its createMany with
\* an item for a pair whose stored window has other times than the item, and
\* the window still has them.
C28_Witness ==
    \E r \in Requests :
        /\ pc[r] = "bc_find"
        /\ \E i \in 1 .. Len(req[r].items) :
               \E a \in availabilities :
                   /\ PairOf(a) = PairOf(req[r].items[i])
                   /\ a.endTime # req[r].items[i].endTime

\* C29: every stored window has a practitionerId > 0 and a dayOfWeek from 0
\* to 6, whatever items the batchCreateAvailabilities calls were given.
C29_BatchRowsValid ==
    \A a \in availabilities : a.practitionerId > 0 /\ a.dayOfWeek \in 0 .. 6

\* C30: every stored window starts before it ends, as minutes since
\* midnight, after any createAvailabilityRaw, update and
\* batchCreateAvailabilities calls.
C30_StartBeforeEnd ==
    \A a \in availabilities : MinuteOfDay(a.startTime) < MinuteOfDay(a.endTime)

\* Window a has a start and an end time that parse and a positive slotDuration.
WellFormed(a) ==
    MinuteOfDay(a.startTime) >= 0 /\ MinuteOfDay(a.endTime) >= 0 /\ a.slotDuration > 0

\* C31: a generateTimeSlots call over a range with a window whose times do not
\* parse or whose slotDuration is not positive returns normally; it generates
\* and stores no slot for the days of that window, and every tile of the
\* practitioner's well-formed windows in the range is stored when it returns.
C31_BestEffortPerDay ==
    [][ \A r \in Requests :
          /\ Proceeds(r, "gen_find") =>
                \A i \in 1 .. Len(req'[r].generated) :
                    \A a \in ActiveFor(req'[r].practitionerId, req'[r].generated[i].date) :
                        WellFormed(a)
          /\ Finishes(r, {"gen_return"}) =>
                /\ ret'[r].outcome = "ok"
                /\ \A d \in req[r].startDate .. req[r].endDate :
                       \A a \in ActiveFor(req[r].practitionerId, d) :
                           IF WellFormed(a)
                           THEN \A m \in TileStartsOf(a) :
                                    \E t \in timeSlots' :
                                        /\ t.practitionerId = req[r].practitionerId
                                        /\ t.date = d
                                        /\ MinuteOfDay(t.startTime) = m
                           ELSE \A t \in timeSlots' :
                                    ~(t.practitionerId = req[r].practitionerId /\ t.date = d) ]_vars

\* C31 witness: a call over days 0 and 1 has returned normally; the Tuesday
\* window is not well-formed, day 0 has no slot and the Wednesday slot of day 1
\* is stored.
C31_Witness ==
    /\ pc["r1"] = "idle"
    /\ ret["r1"].op = "generateTimeSlots" /\ ret["r1"].outcome = "ok"
    /\ ret["r1"].startDate = 0 /\ ret["r1"].endDate >= 1
    /\ \E a \in availabilities : a.dayOfWeek = 2 /\ ~WellFormed(a)
    /\ \E t \in timeSlots : t.date = 1 /\ t.startTime = <<9, 0>>
    /\ \A t \in timeSlots : t.date # 0

\* A slot on date d starting at startTime is in the future at local time now.
InFuture(d, startTime, now) ==
    d > Today \/ (d = Today /\ MinuteOfDay(startTime) > MinuteOfDay(now))

\* C32: every slot a getAvailableSlots call returns is after the current day,
\* or on the current day with a startTime later than the current time, and
\* every AVAILABLE slot of the practitioner in the range that is so is returned.
C32_OnlyFutureSlots ==
    [][ \A r \in Requests :
          Returns(r, "getAvailableSlots") =>
              LET result == {ret'[r].result[i] : i \in DOMAIN ret'[r].result}
              IN  /\ \A t \in result : InFuture(t.date, t.startTime, ret'[r].now)
                  /\ \A t \in timeSlots :
                         ( /\ t.practitionerId = ret'[r].practitionerId
                           /\ t.date >= ret'[r].startDate /\ t.date <= ret'[r].endDate
                           /\ t.status = "AVAILABLE"
                           /\ InFuture(t.date, t.startTime, ret'[r].now) )
                         => t \in result ]_vars

\* The practitioner of call owns no stored slot with the id of call: no row
\* has the id, or the row is another practitioner's.
NotOwner(call) ==
    ~ \E s \in timeSlots :
          s.id = call.slotId /\ s.practitionerId = call.practitionerId

\* The one response a practitioner without the slot gets: NotFound and the
\* arguments of the call, nothing of the store.
NotFoundOf(call) ==
    IF call.op = "updateSlotStatus"
    THEN [op |-> call.op, slotId |-> call.slotId, status |-> call.status,
          practitionerId |-> call.practitionerId, outcome |-> "NotFound"]
    ELSE [op |-> call.op, slotId |-> call.slotId,
          practitionerId |-> call.practitionerId, outcome |-> "NotFound"]

\* C33: an updateSlotStatus or deleteTimeSlot call of a practitioner who does
\* not own the slot gets the same NotFound response whether the id has no row
\* or has a row of another practitioner (the response depends on the
\* arguments alone), and leaves the store as it was in both cases.
C33_NonOwnerCannotTell ==
    [][ \A r \in Requests, op \in {"updateSlotStatus", "deleteTimeSlot"} :
          (Returns(r, op) /\ NotOwner(ret'[r])) =>
              /\ ret'[r] = NotFoundOf(ret'[r])
              /\ timeSlots' = timeSlots /\ availabilities' = availabilities ]_vars

\* C33 witness: one request was told NotFound about a slot id that is stored
\* under the other practitioner, and the other request was told NotFound, by
\* the same operation for the same practitioner, about an id with no row.
C33_Witness ==
    \E r \in Requests, q \in Requests, s \in timeSlots :
        /\ ret[r].op \in {"updateSlotStatus", "deleteTimeSlot"}
        /\ ret[r].outcome = "NotFound"
        /\ s.id = ret[r].slotId /\ s.practitionerId # ret[r].practitionerId
        /\ ret[q].op = ret[r].op /\ ret[q].outcome = "NotFound"
        /\ ret[q].practitionerId = ret[r].practitionerId
        /\ \A t \in timeSlots : t.id # ret[q].slotId

\* What batchDeactivate(practitionerId, days) must leave alone is the same
\* after the step as before: the windows and slots of other practitioners,
\* the practitioner's windows on weekdays not in days, and the practitioner's
\* slots on dates whose weekday is not in days.
OutsideTarget(rows, slots, practitionerId, days) ==
    [windows |-> {a \in rows : a.practitionerId # practitionerId
                                \/ a.dayOfWeek \notin days},
     slots   |-> {t \in slots : t.practitionerId # practitionerId
                                \/ GetDay(t.date) \notin days}]

FrameKept(call) ==
    OutsideTarget(availabilities', timeSlots', call.practitionerId, call.daysOfWeek)
        = OutsideTarget(availabilities, timeSlots, call.practitionerId, call.daysOfWeek)

\* C34: no step of batchDeactivate(p, days) changes a window or slot of
\* another practitioner, a window of p on a weekday not in days, or a slot of
\* p on a date whose weekday is not in days.
C34_DeactivateFrame ==
    [][ \A r \in Requests :
          /\ Proceeds(r, "bd_find") => FrameKept(req'[r])
          /\ (pc[r] \in {"bd_find", "bd_delete"} /\ pc'[r] # pc[r]) => FrameKept(req[r])
          /\ Returns(r, "batchDeactivate") => FrameKept(ret'[r]) ]_vars

\* C34 witness: a batchDeactivate call has deactivated a window and deleted a
\* slot of its practitioner, who still has an active window and a slot on a
\* weekday that was not among the days of the call.
C34_Witness ==
    \E r \in Requests, a \in availabilities, t \in timeSlots :
        /\ pc[r] = "idle" /\ ret[r].op = "batchDeactivate" /\ ret[r].outcome = "ok"
        /\ ret[r].deactivatedAvailabilities >= 1 /\ ret[r].deletedTimeSlots >= 1
        /\ a.practitionerId = ret[r].practitionerId /\ a.isActive
        /\ a.dayOfWeek \notin ret[r].daysOfWeek
        /\ t.practitionerId = ret[r].practitionerId
        /\ GetDay(t.date) \notin ret[r].daysOfWeek

\* C35: every started generateTimeSlots call finishes, whatever its date
\* range (also one that ends before it starts) and whatever the window of a
\* day: generateSlotsForDay returns the empty list, without entering its
\* loop, when slotDuration is zero or negative.
C35_GenerateTerminates ==
    /\ \A r \in Requests : (pc[r] # "idle") ~> (pc[r] = "idle")
    /\ [][ \A r \in Requests :
              (pc[r] = "day_loop" /\ pc'[r] = "slot_loop") =>
                  req'[r].slotDuration > 0 ]_vars

\* C35 witness: a generateTimeSlots call over a range with a Tuesday has
\* returned for a practitioner whose Tuesday window has a slotDuration of
\* zero or less.
C35_Witness ==
    \E r \in Requests, a \in availabilities :
        /\ pc[r] = "idle" /\ ret[r].op = "generateTimeSlots" /\ ret[r].outcome = "ok"
        /\ a.practitionerId = ret[r].practitionerId /\ a.isActive
        /\ a.slotDuration <= 0
        /\ \E d \in ret[r].startDate .. ret[r].endDate : GetDay(d) = a.dayOfWeek

\* C36: once the createConsultationWithTimeSlot calls have returned, every
\* consultation they created holds its slot: the slot it was scheduled on is
\* BOOKED with the id of that consultation, so no slot has two consultations
\* and no consultation exists whose booking failed.
C36_ConsultationHoldsSlot ==
    (\A r \in Requests : pc[r] = "idle") =>
        \A c \in consultations :
            \E t \in timeSlots :
                /\ t.practitionerId = c.ownerId
                /\ <<t.date, t.startTime>> = c.scheduledDate
                /\ t.status = "BOOKED" /\ t.consultationId = c.id

\* Two slots overlap in time: each starts before the other ends.
Overlap(a, b) ==
    /\ MinuteOfDay(a.startTime) < MinuteOfDay(b.endTime)
    /\ MinuteOfDay(b.startTime) < MinuteOfDay(a.endTime)

\* C37: whatever createAvailabilityRaw and generateTimeSlots calls were made,
\* no two stored slots of the same practitioner on the same date overlap in
\* time.
C37_NoOverlappingSlots ==
    \A a \in timeSlots, b \in timeSlots :
        (a.id # b.id /\ a.practitionerId = b.practitionerId /\ a.date = b.date)
            => ~ Overlap(a, b)

\* C38: when batchDeactivate applies its delete, every slot of the
\* practitioner on the target dates that the delete leaves in place is listed
\* in skippedBookedSlotIds, and deletedTimeSlots + skippedBookedSlots is the
\* number of slots the practitioner had on the target dates at that moment,
\* also when bookings run concurrently.
C38_ReportAgreesWithDelete ==
    [][ \A r \in Requests :
          Finishes(r, {"bd_delete"}) =>
              LET target == OnHorizon(timeSlots, req[r].practitionerId,
                                      ValidEntries(req[r].daysOfWeek))
              IN  /\ \A t \in target \cap timeSlots' :
                         t.id \in ret'[r].skippedBookedSlotIds
                  /\ ret'[r].deletedTimeSlots + ret'[r].skippedBookedSlots
                         = Cardinality(target) ]_vars

====
